---- MODULE Spec2Model ----
(***************************************************************************)
(* Model of comparator.py: the file-name analyzer, the correspondence      *)
(* resolver and the content comparator of the merge-quality evaluation.    *)
(*                                                                         *)
(* A string is a sequence of one-character strings.  A float is the exact  *)
(* fraction [num, den] in lowest terms: the similarities, precision and    *)
(* recall are quotients of two small integers, and IEEE division of equal  *)
(* quotients gives equal doubles, so their comparisons agree with the      *)
(* fractions.                                                              *)
(***************************************************************************)
EXTENDS Integers, Sequences, FiniteSets, TLC

(***************************************************************************)
(* Numbers                                                                 *)
(***************************************************************************)
RECURSIVE GCD(_, _)
GCD(a, b) == IF b = 0 THEN a ELSE GCD(b, a % b)

\* The quotient n / d of two naturals, d > 0, in lowest terms.
Frac(n, d) == LET g == GCD(n, d) IN [num |-> n \div g, den |-> d \div g]

Zero == Frac(0, 1)
One == Frac(1, 1)

Less(x, y) == x.num * y.den < y.num * x.den
LessEq(x, y) == x.num * y.den <= y.num * x.den
Mul(x, y) == Frac(x.num * y.num, x.den * y.den)
Add(x, y) == Frac(x.num * y.den + y.num * x.den, x.den * y.den)
\* x - y, for x >= y
Sub(x, y) == Frac(x.num * y.den - y.num * x.den, x.den * y.den)
\* What a float division by zero raises instead of returning.
ZeroDivisionError == [num |-> 0, den |-> 0]
\* x / y of two fractions
Quot(x, y) == IF y.num = 0 THEN ZeroDivisionError ELSE Frac(x.num * y.den, x.den * y.num)

Min(a, b) == IF a < b THEN a ELSE b
Max(a, b) == IF a < b THEN b ELSE a

(***************************************************************************)
(* Characters                                                              *)
(***************************************************************************)
UpperCase == {"A", "B", "C", "D", "E", "F", "G", "H", "I", "J", "K", "L", "M",
              "N", "O", "P", "Q", "R", "S", "T", "U", "V", "W", "X", "Y", "Z"}
LowerCase == {"a", "b", "c", "d", "e", "f", "g", "h", "i", "j", "k", "l", "m",
              "n", "o", "p", "q", "r", "s", "t", "u", "v", "w", "x", "y", "z"}
Digits == {"0", "1", "2", "3", "4", "5", "6", "7", "8", "9"}

LowerOf == [c \in UpperCase |->
    CASE c = "A" -> "a" [] c = "B" -> "b" [] c = "C" -> "c" [] c = "D" -> "d"
      [] c = "E" -> "e" [] c = "F" -> "f" [] c = "G" -> "g" [] c = "H" -> "h"
      [] c = "I" -> "i" [] c = "J" -> "j" [] c = "K" -> "k" [] c = "L" -> "l"
      [] c = "M" -> "m" [] c = "N" -> "n" [] c = "O" -> "o" [] c = "P" -> "p"
      [] c = "Q" -> "q" [] c = "R" -> "r" [] c = "S" -> "s" [] c = "T" -> "t"
      [] c = "U" -> "u" [] c = "V" -> "v" [] c = "W" -> "w" [] c = "X" -> "x"
      [] c = "Y" -> "y" [] c = "Z" -> "z"]

\* str.lower() of one character, and of a string
LowerChar(c) == IF c \in UpperCase THEN LowerOf[c] ELSE c
Lower(s) == [i \in 1..Len(s) |-> LowerChar(s[i])]

\* The character classes the patterns use: not a dot, a digit, a word character
InClass(cls, c) ==
    CASE cls = "notdot" -> c # "."
      [] cls = "digit" -> c \in Digits
      [] cls = "word" -> c \in UpperCase \cup LowerCase \cup Digits \cup {"_"}
      [] OTHER -> FALSE

(***************************************************************************)
(* The regular expressions of FileNameAnalyzer.  Each one is a literal,    *)
(* then at most one repeated character class (one or more, or zero or      *)
(* more), then an optional end anchor.                                     *)
(* They are matched with re.IGNORECASE.                                    *)
(***************************************************************************)
Pat(lit, cls, min, anch) == [lit |-> lit, cls |-> cls, min |-> min, anch |-> anch]
Lit(lit) == Pat(lit, "none", 0, FALSE)
LitEnd(lit) == Pat(lit, "none", 0, TRUE)

\* The literal matched without re.IGNORECASE
LitAtCaseSensitive(lit, s, i) ==
    /\ i + Len(lit) - 1 <= Len(s)
    /\ \A k \in 1..Len(lit) : s[i + k - 1] = lit[k]

\* The literal matches s at position i, ignoring case.
LitAt(lit, s, i) ==
    /\ i + Len(lit) - 1 <= Len(s)
    /\ \A k \in 1..Len(lit) : LowerChar(s[i + k - 1]) = LowerChar(lit[k])

\* The number of consecutive characters of the class from position j on.
RECURSIVE Run(_, _, _)
Run(cls, s, j) ==
    IF j <= Len(s) /\ InClass(cls, s[j]) THEN 1 + Run(cls, s, j + 1) ELSE 0

\* $ holds at position j (the first position after the match): at the end of
\* the string, or just before a line break that ends the string.
AtEnd(s, j) == j = Len(s) + 1 \/ (j = Len(s) /\ s[j] = "\n")

\* The length of the match of p that starts at position i of s; 0 when p does
\* not match there.  The repetition is greedy and gives characters back only
\* to reach the $.
MatchLen(p, s, i) ==
    IF ~LitAt(p.lit, s, i) THEN 0
    ELSE LET n == Len(p.lit)
             r == IF p.cls = "none" THEN 0 ELSE Run(p.cls, s, i + n)
             ks == {k \in p.min..r : ~p.anch \/ AtEnd(s, i + n + k)}
         IN IF ks = {} THEN 0
            ELSE n + (CHOOSE k \in ks : \A k2 \in ks : k2 <= k)

\* re.search(p, s, re.IGNORECASE) is not None
Search(p, s) == \E i \in 1..Len(s) : MatchLen(p, s, i) > 0

\* re.sub(p, '', s, flags=re.IGNORECASE): the leftmost non-overlapping matches
\* are removed, scanning from position i.
RECURSIVE SubFrom(_, _, _)
SubFrom(p, s, i) ==
    IF i > Len(s) THEN <<>>
    ELSE LET m == MatchLen(p, s, i)
         IN IF m > 0 THEN SubFrom(p, s, i + m)
            ELSE <<s[i]>> \o SubFrom(p, s, i + 1)

ReSub(p, s) == SubFrom(p, s, 1)

conflict_patterns == <<
    Lit(<<".", "B", "A", "S", "E", ".">>),
    Lit(<<".", "L", "O", "C", "A", "L", ".">>),
    Lit(<<".", "R", "E", "M", "O", "T", "E", ".">>),
    Lit(<<".", "B", "A", "C", "K", "U", "P", ".">>),
    Lit(<<"_", "B", "A", "C", "K", "U", "P", "_">>),
    Lit(<<"_", "B", "A", "S", "E", "_">>),
    Lit(<<"_", "L", "O", "C", "A", "L", "_">>),
    Lit(<<"_", "R", "E", "M", "O", "T", "E", "_">>),
    Lit(<<"<", "<", "<", "<", "<", "<", "<", " ">>),
    Lit(<<"=", "=", "=", "=", "=", "=", "=">>),
    Lit(<<">", ">", ">", ">", ">", ">", ">", " ">>),
    LitEnd(<<".", "o", "r", "i", "g">>),
    LitEnd(<<".", "r", "e", "j">>),
    LitEnd(<<".", "m", "i", "n", "e">>),
    Pat(<<".", "r">>, "digit", 1, TRUE),
    LitEnd(<<".", "w", "o", "r", "k", "i", "n", "g">>),
    Pat(<<".", "m", "e", "r", "g", "e", "-">>, "word", 1, TRUE),
    Lit(<<"_", "c", "o", "n", "f", "l", "i", "c", "t", "_">>),
    Lit(<<"_", "m", "e", "r", "g", "e", "d", "_">>),
    Lit(<<".", "c", "o", "n", "f", "l", "i", "c", "t", "e", "d", ".">>) >>

patterns_to_remove == <<
    Pat(<<".", "B", "A", "S", "E", ".">>, "notdot", 1, TRUE),
    Pat(<<".", "L", "O", "C", "A", "L", ".">>, "notdot", 1, TRUE),
    Pat(<<".", "R", "E", "M", "O", "T", "E", ".">>, "notdot", 1, TRUE),
    Pat(<<".", "B", "A", "C", "K", "U", "P", ".">>, "notdot", 1, TRUE),
    Pat(<<"_", "B", "A", "C", "K", "U", "P", "_">>, "digit", 1, FALSE),
    Pat(<<"_", "B", "A", "S", "E", "_">>, "digit", 1, FALSE),
    Pat(<<"_", "L", "O", "C", "A", "L", "_">>, "digit", 1, FALSE),
    Pat(<<"_", "R", "E", "M", "O", "T", "E", "_">>, "digit", 1, FALSE),
    LitEnd(<<".", "o", "r", "i", "g">>),
    LitEnd(<<".", "r", "e", "j">>),
    LitEnd(<<".", "m", "i", "n", "e">>),
    Pat(<<".", "r">>, "digit", 1, TRUE),
    LitEnd(<<".", "w", "o", "r", "k", "i", "n", "g">>),
    Pat(<<".", "m", "e", "r", "g", "e", "-">>, "word", 1, TRUE),
    Pat(<<"_", "c", "o", "n", "f", "l", "i", "c", "t", "_">>, "digit", 0, FALSE),
    Pat(<<"_", "m", "e", "r", "g", "e", "d", "_">>, "digit", 0, FALSE),
    Pat(<<".", "c", "o", "n", "f", "l", "i", "c", "t", "e", "d", ".">>, "word", 1, TRUE) >>

(***************************************************************************)
(* The regular expressions of the temporary files: an optional start       *)
(* anchor, a literal, then optionally any characters but line breaks and a *)
(* second literal, then an optional end anchor.                            *)
(***************************************************************************)
TempPat(start, head, any, tail, anch) ==
    [start |-> start, head |-> head, any |-> any, tail |-> tail, anch |-> anch]

temp_patterns == <<
    TempPat(TRUE, <<".", "#">>, FALSE, <<>>, FALSE),
    TempPat(TRUE, <<"#">>, TRUE, <<"#">>, TRUE),
    TempPat(TRUE, <<".">>, TRUE, <<".", "s", "w", "p">>, TRUE),
    TempPat(TRUE, <<".">>, TRUE, <<".", "t", "m", "p">>, TRUE),
    TempPat(FALSE, <<"~">>, FALSE, <<>>, TRUE),
    TempPat(FALSE, <<".", "b", "a", "k">>, FALSE, <<>>, TRUE) >>

\* The pattern matches s from position i on
TempMatchAt(p, s, i) ==
    /\ LitAt(p.head, s, i)
    /\ LET after == i + Len(p.head)
       IN IF p.any
          THEN \E j \in after..(Len(s) + 1) :
                  /\ \A k \in after..(j - 1) : s[k] # "\n"
                  /\ LitAt(p.tail, s, j)
                  /\ p.anch => AtEnd(s, j + Len(p.tail))
          ELSE p.anch => AtEnd(s, after)

\* re.search(p, s, re.IGNORECASE) is not None
TempSearch(p, s) ==
    \E i \in (IF p.start THEN {1} ELSE 1..Len(s)) : TempMatchAt(p, s, i)

\* FileNameAnalyzer.is_temp_file
is_temp_file(filename) ==
    \E k \in 1..Len(temp_patterns) : TempSearch(temp_patterns[k], filename)

\* FileNameAnalyzer.is_conflict_file
is_conflict_file(filename) ==
    \E k \in 1..Len(conflict_patterns) : Search(conflict_patterns[k], filename)

\* FileNameAnalyzer.extract_base_name: the patterns are applied one after the
\* other, each once, in list order, from pattern k on.
RECURSIVE RemoveFrom(_, _)
RemoveFrom(base_name, k) ==
    IF k > Len(patterns_to_remove) THEN base_name
    ELSE RemoveFrom(ReSub(patterns_to_remove[k], base_name), k + 1)

extract_base_name(filename) == RemoveFrom(filename, 1)

(***************************************************************************)
(* difflib.SequenceMatcher(None, a, b).ratio(), for sequences shorter than *)
(* the 200 elements at which difflib's popularity heuristic starts.        *)
(***************************************************************************)
\* The length of the common run of a from i and b from j, inside a[..ahi], b[..bhi].
RECURSIVE CommonRun(_, _, _, _, _, _)
CommonRun(a, b, i, j, ahi, bhi) ==
    IF i <= ahi /\ j <= bhi /\ a[i] = b[j]
    THEN 1 + CommonRun(a, b, i + 1, j + 1, ahi, bhi)
    ELSE 0

\* find_longest_match: the longest block common to a[alo..ahi] and b[blo..bhi];
\* of the longest blocks the one that starts earliest in a, and of those the
\* one that starts earliest in b.  <<i, j, k>> with k = 0 when nothing is
\* common.
find_longest_match(a, b, alo, ahi, blo, bhi) ==
    LET blocks == {<<i, j, CommonRun(a, b, i, j, ahi, bhi)>> : i \in alo..ahi, j \in blo..bhi}
        Better(x, y) == \/ x[3] > y[3]
                        \/ x[3] = y[3] /\ x[1] < y[1]
                        \/ x[3] = y[3] /\ x[1] = y[1] /\ x[2] <= y[2]
    IN IF blocks = {} THEN <<alo, blo, 0>>
       ELSE CHOOSE x \in blocks : \A y \in blocks : Better(x, y)

\* The sum of the sizes of get_matching_blocks: the longest block, then the
\* same to its left and to its right.
RECURSIVE MatchingSize(_, _, _, _, _, _)
MatchingSize(a, b, alo, ahi, blo, bhi) ==
    LET m == find_longest_match(a, b, alo, ahi, blo, bhi)
    IN IF m[3] = 0 THEN 0
       ELSE m[3] + MatchingSize(a, b, alo, m[1] - 1, blo, m[2] - 1)
                 + MatchingSize(a, b, m[1] + m[3], ahi, m[2] + m[3], bhi)

\* ratio(): 2.0 * matches / length, and 1.0 for two empty sequences
Ratio(a, b) ==
    IF Len(a) + Len(b) = 0 THEN One
    ELSE Frac(2 * MatchingSize(a, b, 1, Len(a), 1, Len(b)), Len(a) + Len(b))

(***************************************************************************)
(* Name matching                                                           *)
(***************************************************************************)
\* The last position of character c in s, 0 when it has none (str.rfind + 1)
RFind(s, c) ==
    LET at == {i \in 1..Len(s) : s[i] = c}
    IN IF at = {} THEN 0 ELSE CHOOSE i \in at : \A i2 \in at : i2 <= i

\* os.path.splitext(name)[0]: the name up to its last dot, when a character
\* other than a dot stands between the last separator and that dot.
SplitextRoot(name) ==
    LET sepIndex == RFind(name, "/")
        dotIndex == RFind(name, ".")
    IN IF dotIndex > sepIndex
          /\ \E k \in (sepIndex + 1)..(dotIndex - 1) : name[k] # "."
       THEN SubSeq(name, 1, dotIndex - 1)
       ELSE name

\* FileNameAnalyzer.calculate_name_similarity
calculate_name_similarity(name1, name2) ==
    Ratio(Lower(SplitextRoot(name1)), Lower(SplitextRoot(name2)))

\* Python's None, unlike every string
None == <<"None">>

\* The loop with the best so far returned for a candidate of the same base name
RECURSIVE BestMatchFromReturnsBest(_, _, _, _, _, _)
BestMatchFromReturnsBest(target_base, candidate_names, threshold, k, best_match, best_score) ==
    IF k > Len(candidate_names) THEN <<best_match, best_score>>
    ELSE LET candidate == candidate_names[k]
             candidate_base == extract_base_name(candidate)
             similarity == calculate_name_similarity(target_base, candidate_base)
         IN IF Lower(target_base) = Lower(candidate_base)
            THEN <<IF best_match = None THEN candidate ELSE best_match, One>>
            ELSE IF Less(best_score, similarity) /\ LessEq(threshold, similarity)
                 THEN BestMatchFromReturnsBest(target_base, candidate_names, threshold,
                                               k + 1, candidate, similarity)
                 ELSE BestMatchFromReturnsBest(target_base, candidate_names, threshold,
                                               k + 1, best_match, best_score)

\* The loop of find_best_match from candidate k on, with the best so far.
RECURSIVE BestMatchFrom(_, _, _, _, _, _)
BestMatchFrom(target_base, candidate_names, threshold, k, best_match, best_score) ==
    IF k > Len(candidate_names) THEN <<best_match, best_score>>
    ELSE LET candidate == candidate_names[k]
             candidate_base == extract_base_name(candidate)
             similarity == calculate_name_similarity(target_base, candidate_base)
         IN IF Lower(target_base) = Lower(candidate_base) THEN <<candidate, One>>
            ELSE IF Less(best_score, similarity) /\ LessEq(threshold, similarity)
                 THEN BestMatchFrom(target_base, candidate_names, threshold, k + 1,
                                    candidate, similarity)
                 ELSE BestMatchFrom(target_base, candidate_names, threshold, k + 1,
                                    best_match, best_score)

\* FileNameAnalyzer.find_best_match: <<best_match, best_score>>
find_best_match(target_name, candidate_names, threshold) ==
    BestMatchFrom(extract_base_name(target_name), candidate_names, threshold, 1, None, Zero)

\* The default of find_best_match's threshold parameter: 0.6
DefaultThreshold == Frac(6, 10)

(***************************************************************************)
(* The scanned trees of the model                                          *)
(***************************************************************************)
\* The most files one scanned tree holds
MaxFiles == 2

DotJava == <<".", "j", "a", "v", "a">>
A_java == <<"A">> \o DotJava
A1_java == <<"A", "1">> \o DotJava
A_java_orig == A_java \o <<".", "o", "r", "i", "g">>
zz_java == <<"z", "z">> \o DotJava

\* File names of the scanned trees: a name, a near name, the name with a
\* conflict suffix, an unrelated name.
FileNames == {A_java, A1_java, A_java_orig, zz_java}

\* Relative paths of the scanned trees: the root, a directory, and a directory
\* whose path is similar to it and has it as a prefix.
Paths == {<<>>, <<"a", "b", "c">>, <<"a", "b", "c", "d">>}

\* The files of a tree in walk order, as <<path, file>> pairs: no pair twice,
\* and the files of one directory together.
WalkOrdersOver(paths, names) ==
    LET all == UNION {[1..n -> paths \X names] : n \in 0..MaxFiles}
    IN {w \in all :
          /\ \A i, j \in 1..Len(w) : i # j => w[i] # w[j]
          /\ \A i, j \in 1..Len(w) :
                i < j /\ w[i][1] = w[j][1] => \A k \in i..j : w[k][1] = w[i][1]}

WalkOrders == WalkOrdersOver(Paths, FileNames)

\* The index of a walk: one entry per directory, in walk order
RECURSIVE IndexFrom(_, _, _)
IndexFrom(w, k, index) ==
    IF k > Len(w) THEN index
    ELSE IF index # <<>> /\ index[Len(index)].path = w[k][1]
         THEN IndexFrom(w, k + 1,
                        [index EXCEPT ![Len(index)].files = Append(@, w[k][2])])
         ELSE IndexFrom(w, k + 1,
                        Append(index, [path |-> w[k][1], files |-> <<w[k][2]>>]))

\* The indexes scan_directory can return within the bounds: distinct paths,
\* each with a non-empty list of distinct files.
Indexes == {IndexFrom(w, 1, <<>>) : w \in WalkOrders}

(***************************************************************************)
(* RecursiveFileScanner.scan_directory                                     *)
(*                                                                         *)
(* A directory is [status, files, dirs]: whether it can be listed          *)
(* ("readable"), cannot ("unreadable") or does not exist ("missing"), the  *)
(* names of its files in listing order, and its subdirectories as a        *)
(* sequence of [name, dir].  The trees of the model have a root and at     *)
(* most one subdirectory.                                                  *)
(***************************************************************************)
\* The most files one directory holds
MaxDirFiles == 2

A_txt == <<"A", ".", "t", "x", "t">>
hash_A_java == <<".", "#", "A">> \o DotJava
dot_A_swp == <<".", "A", ".", "s", "w", "p">>

\* The names of the files of a directory: a source file, a text file, a lock
\* file of a source file, and a swap file.
DirFileNames == {A_java, A_txt, hash_A_java, dot_A_swp}

DirFileLists ==
    LET lists == UNION {[1..n -> DirFileNames] : n \in 0..MaxDirFiles}
    IN {l \in lists : \A i, j \in 1..Len(l) : i # j => l[i] # l[j]}

sub == <<"s", "u", "b">>

Dir(status, files, dirs) == [status |-> status, files |-> files, dirs |-> dirs]

\* The directory trees scan_directory is called on
DirectoryTrees ==
    {Dir("missing", <<>>, <<>>)}
    \cup {Dir(st, files, <<>>) : st \in {"readable", "unreadable"}, files \in DirFileLists}
    \cup {Dir(st, files, <<[name |-> sub, dir |-> Dir(sst, sfiles, <<>>)]>>) :
             st \in {"readable", "unreadable"}, files \in DirFileLists,
             sst \in {"readable", "unreadable"}, sfiles \in DirFileLists}

\* The extensions of RecursiveFileScanner when none are given
DefaultExtensions == <<
    <<".", "j", "a", "v", "a">>, <<".", "p", "y">>, <<".", "c", "p", "p">>, <<".", "c">>,
    <<".", "h">>, <<".", "h", "p", "p">>, <<".", "j", "s">>, <<".", "t", "s">>,
    <<".", "x", "m", "l">>, <<".", "j", "s", "o", "n">> >>

\* The extension lists a scanner is made with: none, and a list of its own
ExtensionLists == {None, << <<".", "t", "x", "t">>, <<".", "s", "w", "p">> >>}

\* RecursiveFileScanner.__init__: file_extensions or the default list
file_extensions_of(file_extensions) ==
    IF file_extensions = None \/ file_extensions = <<>> THEN DefaultExtensions
    ELSE file_extensions

\* str.endswith
EndsWith(s, text) ==
    Len(text) <= Len(s) /\ SubSeq(s, Len(s) - Len(text) + 1, Len(s)) = text

\* os.walk(directory), top down, with errors of the listing ignored: the
\* <<relative path, files>> of the directories that can be listed, a
\* directory before its subdirectories; nothing below a directory that
\* cannot be listed.  The relative path is '' for the root.
OsWalk(directory) ==
    IF directory.status # "readable" THEN <<>>
    ELSE << <<<<>>, directory.files>> >>
         \o (IF directory.dirs # <<>> /\ directory.dirs[1].dir.status = "readable"
             THEN << <<directory.dirs[1].name, directory.dirs[1].dir.files>> >>
             ELSE <<>>)

\* The loop of scan_directory over the walk, from directory k on: the files
\* of a directory that end with one of the extensions and are no temporary
\* files, recorded under the relative path when there are any.
RECURSIVE ScanFrom(_, _, _)
ScanFrom(walk, file_extensions, k) ==
    IF k > Len(walk) THEN <<>>
    ELSE LET valid(file) ==
                 /\ \E e \in 1..Len(file_extensions) : EndsWith(file, file_extensions[e])
                 /\ ~is_temp_file(file)
             valid_files == SelectSeq(walk[k][2], valid)
         IN (IF valid_files # <<>>
             THEN <<[path |-> walk[k][1], files |-> valid_files]>> ELSE <<>>)
            \o ScanFrom(walk, file_extensions, k + 1)

\* RecursiveFileScanner(file_extensions).scan_directory(directory): the index,
\* returned whether or not every directory could be listed.
scan_directory(file_extensions, directory) ==
    [raised |-> FALSE,
     index |-> ScanFrom(OsWalk(directory), file_extensions_of(file_extensions), 1)]

\* Relative paths that are similar to each other to different degrees: the
\* similarity of ab and abc is 0.8, that of abc and abcd and that of abcd and
\* abcde are above it, the others are below it.
SimilarPaths == {<<"a", "b">>, <<"a", "b", "c">>, <<"a", "b", "c", "d">>,
                 <<"a", "b", "c", "d", "e">>}

\* The indexes of trees with these paths
PathIndexes ==
    {IndexFrom(w, 1, <<>>) : w \in WalkOrdersOver(SimilarPaths, {A_java, A1_java})}

\* The most files a tree of a compared run holds
MaxRunFiles == 3

\* The file names of the runs: a name, a near name, an unrelated name
RunFileNames == {A_java, A1_java, zz_java}

\* The indexes of the runs: the files are in the root directory
RunIndexes ==
    LET lists == UNION {[1..n -> RunFileNames] : n \in 0..MaxRunFiles}
        distinct == {l \in lists : \A i, j \in 1..Len(l) : i # j => l[i] # l[j]}
    IN {IF l = <<>> THEN <<>> ELSE <<[path |-> <<>>, files |-> l]>> : l \in distinct}

\* The most files a tree holds in the runs that reach every quality tier
MaxTierFiles == 2

DotC == <<".", "c">>
abcdefghij_c == <<"a", "b", "c", "d", "e", "f", "g", "h", "i", "j">> \o DotC
Abcdefghij_c == <<"A", "b", "c", "d", "e", "f", "g", "h", "i", "j">> \o DotC
abcdefghiz_c == <<"a", "b", "c", "d", "e", "f", "g", "h", "i", "z">> \o DotC
abcdefgxyz_c == <<"a", "b", "c", "d", "e", "f", "g", "x", "y", "z">> \o DotC

\* The file names of these runs: a name, the same name in another case
\* (similarity 1.0), and names whose similarity to it is 0.9 and 0.7
TierFileNames == {abcdefghij_c, Abcdefghij_c, abcdefghiz_c, abcdefgxyz_c}

\* The indexes of these runs: the files are in the root directory
TierIndexes ==
    LET lists == UNION {[1..n -> TierFileNames] : n \in 0..MaxTierFiles}
        distinct == {l \in lists : \A i, j \in 1..Len(l) : i # j => l[i] # l[j]}
    IN {IF l = <<>> THEN <<>> ELSE <<[path |-> <<>>, files |-> l]>> : l \in distinct}

\* The file lists of these indexes, and the empty candidate list
FileLists ==
    {<<>>} \cup UNION {{ix[k].files : k \in 1..Len(ix)} :
                       ix \in Indexes \cup PathIndexes \cup RunIndexes}

(***************************************************************************)
(* RecursiveFileScanner.find_corresponding_files                           *)
(*                                                                         *)
(* An index (the dict scan_directory returns) is a sequence of             *)
(* [path, files] in the dict's iteration order, its paths distinct.        *)
(***************************************************************************)
\* dict.get(path, []): the file list stored under path
Get(index, path) ==
    LET at == {k \in 1..Len(index) : index[k].path = path}
    IN IF at = {} THEN <<>> ELSE index[CHOOSE k \in at : TRUE].files

\* f"{path}/{file}" if path else file
Scenario(path, file) == IF path # <<>> THEN path \o <<"/">> \o file ELSE file

\* str.startswith
StartsWith(s, prefix) ==
    Len(prefix) <= Len(s) /\ SubSeq(s, 1, Len(prefix)) = prefix

\* The path-similarity bound of the fallback lookup: 0.8
PathSimilarityBound == Frac(8, 10)

\* The search with a similarity equal to the bound accepted
RECURSIVE SimilarPathFromAtLeast(_, _, _, _)
SimilarPathFromAtLeast(merge_path, expected_files, k, expected_file_list) ==
    IF k > Len(expected_files) THEN expected_file_list
    ELSE IF LessEq(PathSimilarityBound, Ratio(merge_path, expected_files[k].path))
         THEN expected_files[k].files
         ELSE SimilarPathFromAtLeast(merge_path, expected_files, k + 1, expected_file_list)

\* The search for a similar expected path, from entry k on: the file list of
\* the first expected path whose similarity to merge_path exceeds the bound.
RECURSIVE SimilarPathFrom(_, _, _, _)
SimilarPathFrom(merge_path, expected_files, k, expected_file_list) ==
    IF k > Len(expected_files) THEN expected_file_list
    ELSE IF Less(PathSimilarityBound, Ratio(merge_path, expected_files[k].path))
         THEN expected_files[k].files
         ELSE SimilarPathFrom(merge_path, expected_files, k + 1, expected_file_list)

\* The candidate expected files of a merge path
CandidateList(merge_path, expected_files) ==
    LET expected_file_list == Get(expected_files, merge_path)
    IN IF expected_file_list = <<>>
       THEN SimilarPathFrom(merge_path, expected_files, 1, expected_file_list)
       ELSE expected_file_list

Entry(type, scenario, merge_file, expected_file, match_score, quality_issues) ==
    [type |-> type, scenario |-> scenario, merge_file |-> merge_file,
     expected_file |-> expected_file, match_score |-> match_score,
     quality_issues |-> quality_issues]

\* A conflict entry that keeps a full score
ConflictEntryScored(merge_path, merge_file) ==
    Entry("conflict_file", Scenario(merge_path, merge_file), merge_file, None,
          One, <<"conflict_file">>)

ConflictEntry(merge_path, merge_file) ==
    Entry("conflict_file", Scenario(merge_path, merge_file), merge_file, None,
          Zero, <<"conflict_file">>)

ExactEntry(merge_path, merge_file) ==
    Entry("exact_match", Scenario(merge_path, merge_file), merge_file, merge_file,
          One, <<>>)

\* The name-quality bound of a fuzzy match: 0.9
NameMismatchBound == Frac(9, 10)

\* A fuzzy entry that carries the issue whatever the score
FuzzyEntryAlwaysMismatch(merge_path, merge_file, best_match, score) ==
    Entry("fuzzy_match", Scenario(merge_path, merge_file), merge_file, best_match,
          score, <<"name_mismatch">>)

FuzzyEntry(merge_path, merge_file, best_match, score) ==
    Entry("fuzzy_match", Scenario(merge_path, merge_file), merge_file, best_match,
          score, IF Less(score, NameMismatchBound) THEN <<"name_mismatch">> ELSE <<>>)

NoMatchEntry(merge_path, merge_file) ==
    Entry("no_match", Scenario(merge_path, merge_file), merge_file, None,
          Zero, <<"missing_correspondence">>)

MissingEntry(exp_path, exp_file) ==
    Entry("missing_in_merge", Scenario(exp_path, exp_file), None, exp_file,
          Zero, <<"missing_in_merge">>)

\* Python's truth value of a match: neither None nor the empty string
Truthy(x) == x # None /\ x # <<>>

\* One merge file's correspondence with the verbatim lookup made before the
\* conflict test
MergeFileEntryExactFirst(merge_path, merge_file, expected_file_list) ==
    IF \E k \in 1..Len(expected_file_list) : expected_file_list[k] = merge_file
    THEN ExactEntry(merge_path, merge_file)
    ELSE IF is_conflict_file(merge_file) THEN ConflictEntry(merge_path, merge_file)
         ELSE LET m == find_best_match(merge_file, expected_file_list, DefaultThreshold)
              IN IF Truthy(m[1]) THEN FuzzyEntry(merge_path, merge_file, m[1], m[2])
                 ELSE NoMatchEntry(merge_path, merge_file)

\* The correspondence of one merge file
MergeFileEntry(merge_path, merge_file, expected_file_list) ==
    IF is_conflict_file(merge_file) THEN ConflictEntry(merge_path, merge_file)
    ELSE IF \E k \in 1..Len(expected_file_list) : expected_file_list[k] = merge_file
         THEN ExactEntry(merge_path, merge_file)
         ELSE LET m == find_best_match(merge_file, expected_file_list, DefaultThreshold)
              IN IF Truthy(m[1]) THEN FuzzyEntry(merge_path, merge_file, m[1], m[2])
                 ELSE NoMatchEntry(merge_path, merge_file)

\* MergeFileEntry tabulated over the files and candidate lists of the model's
\* trees, for the root path (the name analysis of a file is computed once, not
\* once per state); the path of a file enters its entry by the scenario only.
MergeFileEntryTable ==
    [x \in FileNames \X FileLists |-> MergeFileEntry(<<>>, x[1], x[2])] @@ <<>>

\* The entry of a merge file, under the scenario of its path: the tabulated
\* one when the table has it
MergeFileEntryAt(merge_path, merge_file, expected_file_list) ==
    IF <<merge_file, expected_file_list>> \in DOMAIN MergeFileEntryTable
    THEN [MergeFileEntryTable[<<merge_file, expected_file_list>>]
             EXCEPT !.scenario = Scenario(merge_path, merge_file)]
    ELSE MergeFileEntry(merge_path, merge_file, expected_file_list)

\* The counter of merge_stats a merge-side correspondence increments
StatOf(type) ==
    CASE type = "conflict_file" -> "conflict_files"
      [] type = "exact_match" -> "exact_matches"
      [] type = "fuzzy_match" -> "fuzzy_matches"
      [] type = "no_match" -> "no_matches"

EmptyStats ==
    [exact_matches |-> 0, fuzzy_matches |-> 0, no_matches |-> 0, conflict_files |-> 0]

\* The record with a file without a match left out of the counters
RecordNoMatchUncounted(acc, entry) ==
    [correspondences |-> Append(acc.correspondences, entry),
     merge_stats |-> IF entry.type = "no_match" THEN acc.merge_stats
                     ELSE [acc.merge_stats EXCEPT ![StatOf(entry.type)] = @ + 1]]

\* The record with the new correspondence put in front
RecordInFront(acc, entry) ==
    [correspondences |-> <<entry>> \o acc.correspondences,
     merge_stats |-> [acc.merge_stats EXCEPT ![StatOf(entry.type)] = @ + 1]]

\* acc is [correspondences, merge_stats]: one more merge-side correspondence
Record(acc, entry) ==
    [correspondences |-> Append(acc.correspondences, entry),
     merge_stats |-> [acc.merge_stats EXCEPT ![StatOf(entry.type)] = @ + 1]]

\* The loop over the files of one merge path, from file k on
RECURSIVE MergeFilesFrom(_, _, _, _, _)
MergeFilesFrom(acc, merge_path, merge_file_list, expected_file_list, k) ==
    IF k > Len(merge_file_list) THEN acc
    ELSE MergeFilesFrom(
            Record(acc, MergeFileEntryAt(merge_path, merge_file_list[k], expected_file_list)),
            merge_path, merge_file_list, expected_file_list, k + 1)

\* The loop over the merge paths, from path k on
RECURSIVE MergePathsFrom(_, _, _, _)
MergePathsFrom(acc, merge_files, expected_files, k) ==
    IF k > Len(merge_files) THEN acc
    ELSE MergePathsFrom(
            MergeFilesFrom(acc, merge_files[k].path, merge_files[k].files,
                           CandidateList(merge_files[k].path, expected_files), 1),
            merge_files, expected_files, k + 1)

\* The lookup with the scenario compared to the path for equality
FoundScenarioEqual(correspondences, exp_path, exp_file) ==
    \E k \in 1..Len(correspondences) :
        /\ correspondences[k].expected_file = exp_file
        /\ correspondences[k].scenario = exp_path

\* Whether the expected file was already found: some correspondence names it
\* and has a scenario that starts with the expected path.
Found(correspondences, exp_path, exp_file) ==
    \E k \in 1..Len(correspondences) :
        /\ correspondences[k].expected_file = exp_file
        /\ StartsWith(correspondences[k].scenario, exp_path)

\* The loop over the files of one expected path, from file k on
RECURSIVE ExpectedFilesFrom(_, _, _, _)
ExpectedFilesFrom(correspondences, exp_path, exp_file_list, k) ==
    IF k > Len(exp_file_list) THEN correspondences
    ELSE ExpectedFilesFrom(
            IF Found(correspondences, exp_path, exp_file_list[k]) THEN correspondences
            ELSE Append(correspondences, MissingEntry(exp_path, exp_file_list[k])),
            exp_path, exp_file_list, k + 1)

\* The loop over the expected paths, from path k on
RECURSIVE ExpectedPathsFrom(_, _, _)
ExpectedPathsFrom(correspondences, expected_files, k) ==
    IF k > Len(expected_files) THEN correspondences
    ELSE ExpectedPathsFrom(
            ExpectedFilesFrom(correspondences, expected_files[k].path,
                              expected_files[k].files, 1),
            expected_files, k + 1)

\* The value of the local expected_file_list in each iteration of the loop
\* over the merge paths
ExpectedFileLists(merge_files, expected_files) ==
    [k \in 1..Len(merge_files) |-> CandidateList(merge_files[k].path, expected_files)]

\* find_corresponding_files: [correspondences, merge_stats]
find_corresponding_files(merge_files, expected_files) ==
    LET acc == MergePathsFrom([correspondences |-> <<>>, merge_stats |-> EmptyStats],
                              merge_files, expected_files, 1)
    IN [correspondences |-> ExpectedPathsFrom(acc.correspondences, expected_files, 1),
        merge_stats |-> acc.merge_stats]

\* The correspondences compare_directories_recursive compares
IsComparable(c) ==
    /\ Truthy(c.merge_file)
    /\ Truthy(c.expected_file)
    /\ c.type \in {"exact_match", "fuzzy_match"}

ComparableOf(correspondences) == SelectSeq(correspondences, IsComparable)

(***************************************************************************)
(* MergeComparator                                                         *)
(***************************************************************************)
\* The characters str.strip() and str.split() take for white space
WhiteSpace == {" ", "\t", "\n", "\r", "\f"}

\* ' '.join(line.strip().split()) from character i on: out is the text built
\* so far, gap tells that white space was passed since its last character.
RECURSIVE NormalizeFrom(_, _, _, _)
NormalizeFrom(line, i, out, gap) ==
    IF i > Len(line) THEN out
    ELSE IF line[i] \in WhiteSpace THEN NormalizeFrom(line, i + 1, out, TRUE)
         ELSE NormalizeFrom(line, i + 1,
                            IF gap /\ out # <<>> THEN out \o <<" ", line[i]>>
                            ELSE Append(out, line[i]),
                            FALSE)

\* The line with its ends trimmed and its inner white space left as it is
NormalizeLineStripOnly(line) ==
    LET text == {i \in 1..Len(line) : line[i] \notin WhiteSpace}
    IN IF text = {} THEN <<>>
       ELSE SubSeq(line, CHOOSE i \in text : \A j \in text : i <= j,
                         CHOOSE i \in text : \A j \in text : j <= i)

\* MergeComparator.normalize_line
normalize_line(line) == NormalizeFrom(line, 1, <<>>, FALSE)

\* [normalize_line(line) for line in lines if normalize_line(line)], from line k on
RECURSIVE NormalizedFrom(_, _)
NormalizedFrom(lines, k) ==
    IF k > Len(lines) THEN <<>>
    ELSE IF normalize_line(lines[k]) # <<>>
         THEN <<normalize_line(lines[k])>> \o NormalizedFrom(lines, k + 1)
         ELSE NormalizedFrom(lines, k + 1)

NormalizedLines(lines) == NormalizedFrom(lines, 1)

\* A new MergeComparator
NewSelf ==
    [merge_lines |-> <<>>, expected_lines |-> <<>>,
     normalized_merge_lines |-> <<>>, normalized_expected_lines |-> <<>>]

\* The call with the merge lines normalized as soon as they are read
load_files_NormalizingEach(self, merge_content, expected_content, outcome) ==
    IF outcome = "merge_unreadable" THEN [self |-> self, result |-> FALSE]
    ELSE IF outcome = "expected_unreadable"
         THEN [self |-> [self EXCEPT !.merge_lines = merge_content,
                                     !.normalized_merge_lines = NormalizedLines(merge_content)],
               result |-> FALSE]
         ELSE [self |-> [merge_lines |-> merge_content,
                         expected_lines |-> expected_content,
                         normalized_merge_lines |-> NormalizedLines(merge_content),
                         normalized_expected_lines |-> NormalizedLines(expected_content)],
               result |-> TRUE]

\* MergeComparator.load_files on the comparator self, [self, result]: the
\* files hold the given lines, and outcome tells whether both were read
\* ("ok") or which of them raised when opened or read.  The fields are
\* assigned in the order of the code, up to the statement that raised.
load_files(self, merge_content, expected_content, outcome) ==
    IF outcome = "merge_unreadable" THEN [self |-> self, result |-> FALSE]
    ELSE IF outcome = "expected_unreadable"
         THEN [self |-> [self EXCEPT !.merge_lines = merge_content], result |-> FALSE]
         ELSE [self |-> [merge_lines |-> merge_content,
                         expected_lines |-> expected_content,
                         normalized_merge_lines |-> NormalizedLines(merge_content),
                         normalized_expected_lines |-> NormalizedLines(expected_content)],
               result |-> TRUE]

\* The record of one load_files call: what was read of the two files, and
\* what the call returned
LoadOf(merge_content, expected_content, outcome) ==
    [merge_content |-> IF outcome = "merge_unreadable" THEN <<>> ELSE merge_content,
     expected_content |-> IF outcome = "ok" THEN expected_content ELSE <<>>,
     outcome |-> outcome,
     result |-> outcome = "ok"]

\* set(list)
ToSet(list) == {list[i] : i \in 1..Len(list)}

\* The count of the positions below both lengths where the lists agree
OrderMatches(a, b) == Cardinality({i \in 1..Min(Len(a), Len(b)) : a[i] = b[i]})

\* What calculate_metrics gives when a division by zero stops it
MetricsError == [error |-> "ZeroDivisionError"]

\* tp / (tp + fp) without the guard
PrecisionUnguarded(true_positives, false_positives) ==
    Quot(Frac(true_positives, 1), Frac(true_positives + false_positives, 1))

\* tp / (tp + fp) behind its guard
Precision(true_positives, false_positives) ==
    IF true_positives + false_positives > 0
    THEN Quot(Frac(true_positives, 1), Frac(true_positives + false_positives, 1))
    ELSE Zero

\* The recall with a denominator of 1 more
RecallOverOneMore(true_positives, false_negatives) ==
    Quot(Frac(true_positives, 1), Frac(true_positives + false_negatives + 1, 1))

\* tp / (tp + fn) behind its guard
Recall(true_positives, false_negatives) ==
    IF true_positives + false_negatives > 0
    THEN Quot(Frac(true_positives, 1), Frac(true_positives + false_negatives, 1))
    ELSE Zero

\* The F1 score without its factor 2
F1ScoreHalved(precision, recall) ==
    IF precision.den = 0 \/ recall.den = 0 THEN ZeroDivisionError
    ELSE IF Less(Zero, Add(precision, recall))
         THEN Quot(Mul(precision, recall), Add(precision, recall))
         ELSE Zero

\* 2 * (precision * recall) / (precision + recall) behind its guard
F1Score(precision, recall) ==
    IF precision.den = 0 \/ recall.den = 0 THEN ZeroDivisionError
    ELSE IF Less(Zero, Add(precision, recall))
         THEN Quot(Mul(Frac(2, 1), Mul(precision, recall)), Add(precision, recall))
         ELSE Zero

\* The order accuracy with the longer list counted in distinct lines
LineOrderAccuracyOverSets(merge, expected) ==
    IF Max(Len(merge), Len(expected)) > 0
    THEN Quot(Frac(OrderMatches(merge, expected), 1),
              Frac(Max(Cardinality(ToSet(merge)), Cardinality(ToSet(expected))), 1))
    ELSE Zero

\* matches / max_lines behind its guard
LineOrderAccuracy(merge, expected) ==
    IF Max(Len(merge), Len(expected)) > 0
    THEN Quot(Frac(OrderMatches(merge, expected), 1),
              Frac(Max(Len(merge), Len(expected)), 1))
    ELSE Zero

\* MergeComparator.calculate_metrics on the two normalized lists
calculate_metrics(normalized_merge, normalized_expected) ==
    LET merge_set == ToSet(normalized_merge)
        expected_set == ToSet(normalized_expected)
        true_positives == Cardinality(merge_set \cap expected_set)
        false_positives == Cardinality(merge_set \ expected_set)
        false_negatives == Cardinality(expected_set \ merge_set)
        precision == Precision(true_positives, false_positives)
        recall == Recall(true_positives, false_negatives)
        f1_score == F1Score(precision, recall)
        line_order_accuracy == LineOrderAccuracy(normalized_merge, normalized_expected)
    IN IF \E x \in {precision, recall, f1_score, line_order_accuracy} : x.den = 0
       THEN MetricsError
       ELSE [precision |-> precision,
             recall |-> recall,
             f1_score |-> f1_score,
             line_order_accuracy |-> line_order_accuracy,
             similarity_ratio |-> Ratio(normalized_merge, normalized_expected),
             total_expected_lines |-> Cardinality(expected_set),
             total_merge_lines |-> Cardinality(merge_set),
             correct_lines |-> true_positives,
             extra_lines |-> false_positives,
             missing_lines |-> false_negatives,
             error_rate |-> Sub(One, precision)]

(***************************************************************************)
(* The file contents of the model                                          *)
(***************************************************************************)
\* The most lines a compared file holds
MaxLines == 3

\* The lines of the compared files, as readlines gives them: two lines of
\* text, one of them with white space around it, and an empty line.
RawLines == { <<"x", "\n">>, <<" ", "y", "\t", "\n">>, <<"\n">> }

FileContents == UNION {[1..n -> RawLines] : n \in 0..MaxLines}

\* The contents of the files a run compares: a file of one line, and a file
\* of that line and another.
RunContents == { << <<"x", "\n">> >>, << <<"x", "\n">>, <<" ", "y", "\t", "\n">> >> }

\* The contents of the files in the runs that reach every quality tier: a
\* file of one line, a file of two lines, and a file of these two lines in the
\* other order, one of them twice
TierContents == {
    << <<"x", "\n">> >>,
    << <<"x", "\n">>, <<"y", "\n">> >>,
    << <<"y", "\n">>, <<"x", "\n">>, <<"x", "\n">> >> }

\* The most load_files calls made on one comparator
MaxLoads == 3

\* The contents of the files loaded one after the other by one comparator: a
\* file with white space at the ends of a line, inside it and in runs, a file
\* with lines of white space only and a line without a line break, and an
\* empty file.
LoadContents == {
    << <<"x", "\n">>, <<" ", "\t", "a", " ", " ", "\t", "b", " ", "c", "\r", "\n">> >>,
    << <<"\n">>, <<" ", "\t", "\n">>, <<"y", " ", "\f", " ", "z">> >>,
    <<>> }

(***************************************************************************)
(* compare_directories_recursive: the summary of a run                     *)
(***************************************************************************)
\* s.rstrip('/')
RECURSIVE RStripSlashes(_)
RStripSlashes(s) ==
    IF s # <<>> /\ s[Len(s)] = "/" THEN RStripSlashes(SubSeq(s, 1, Len(s) - 1)) ELSE s

\* os.path.dirname: the text up to the last '/', without the slashes at its
\* end unless it is made of slashes only
DirName(p) ==
    LET head == SubSeq(p, 1, RFind(p, "/"))
    IN IF RStripSlashes(head) # <<>> THEN RStripSlashes(head) ELSE head

\* The file that os.path.join(directory, path_part, file) names, as the
\* relative path of its directory in the tree and its name
Joined(path_part, file) == [path |-> path_part, file |-> file]

\* The two paths the comparison loop builds for a correspondence
PathsOf(correspondence) ==
    IF RFind(correspondence.scenario, "/") > 0
    THEN LET path_part == DirName(correspondence.scenario)
         IN [merge_path |-> Joined(path_part, correspondence.merge_file),
             expected_path |-> Joined(path_part, correspondence.expected_file)]
    ELSE [merge_path |-> Joined(<<>>, correspondence.merge_file),
          expected_path |-> Joined(<<>>, correspondence.expected_file)]

\* Whether the scanned tree holds the file: the files of the correspondences
\* have names the scan lists, so such a file is there when its directory's
\* entry of the index lists it.
Exists(index, file_path) ==
    \E k \in 1..Len(index) :
        /\ index[k].path = file_path.path
        /\ \E i \in 1..Len(index[k].files) : index[k].files[i] = file_path.file

\* What load_files can do with the two paths: read both files, or raise at
\* the first or at the second; a file that is not there cannot be read.
Outcomes(merge_index, expected_index, paths) ==
    {outcome \in {"ok", "merge_unreadable", "expected_unreadable"} :
        /\ outcome # "merge_unreadable" => Exists(merge_index, paths.merge_path)
        /\ outcome = "ok" => Exists(expected_index, paths.expected_path)}

\* total_metrics before the first comparison
InitialTotals(comparable_correspondences) ==
    [total_files |-> Len(comparable_correspondences),
     perfect_matches |-> 0,
     high_quality |-> 0,
     medium_quality |-> 0,
     low_quality |-> 0,
     total_precision |-> Zero,
     total_recall |-> Zero,
     total_f1_score |-> Zero,
     total_similarity |-> Zero,
     name_quality_issues |-> 0,
     structural_issues |-> 0]

\* The bounds of the quality tiers: 0.9 and 0.7
HighQualityBound == Frac(9, 10)
MediumQualityBound == Frac(7, 10)

\* The tiers with their lower bounds left out of them
TierOfAbove(adjusted_f1) ==
    IF adjusted_f1 = One THEN "perfect_matches"
    ELSE IF Less(HighQualityBound, adjusted_f1) THEN "high_quality"
    ELSE IF Less(MediumQualityBound, adjusted_f1) THEN "medium_quality"
    ELSE "low_quality"

\* The counter of total_metrics a compared pair increments
TierOf(adjusted_f1) ==
    IF adjusted_f1 = One THEN "perfect_matches"
    ELSE IF LessEq(HighQualityBound, adjusted_f1) THEN "high_quality"
    ELSE IF LessEq(MediumQualityBound, adjusted_f1) THEN "medium_quality"
    ELSE "low_quality"

\* The metrics of a pair with the content F1 score as its adjusted score
PairMetricsUnadjusted(metrics, correspondence) ==
    metrics @@
    [scenario |-> correspondence.scenario,
     merge_file |-> correspondence.merge_file,
     expected_file |-> correspondence.expected_file,
     match_score |-> correspondence.match_score,
     quality_issues |-> correspondence.quality_issues,
     match_type |-> correspondence.type,
     adjusted_f1_score |-> metrics.f1_score]

\* The metrics of a pair after metrics.update and with its adjusted F1 score
PairMetrics(metrics, correspondence) ==
    metrics @@
    [scenario |-> correspondence.scenario,
     merge_file |-> correspondence.merge_file,
     expected_file |-> correspondence.expected_file,
     match_score |-> correspondence.match_score,
     quality_issues |-> correspondence.quality_issues,
     match_type |-> correspondence.type,
     adjusted_f1_score |-> Mul(metrics.f1_score, correspondence.match_score)]

\* total_metrics after a pair whose files were loaded
UpdateTotals(total_metrics, pair_metrics) ==
    LET tier == TierOf(pair_metrics.adjusted_f1_score)
        counted == [total_metrics EXCEPT ![tier] = @ + 1]
    IN [counted EXCEPT
          !.name_quality_issues = IF pair_metrics.quality_issues # <<>> THEN @ + 1 ELSE @,
          !.total_precision = Add(@, pair_metrics.precision),
          !.total_recall = Add(@, pair_metrics.recall),
          !.total_f1_score = Add(@, pair_metrics.adjusted_f1_score),
          !.total_similarity = Add(@, pair_metrics.similarity_ratio)]

\* The run's state, [all_results, total_metrics], after a pair whose load
\* failure is counted as a comparison of low quality
AfterPairCountingFailures(run, loaded_ok, pair_metrics) ==
    IF loaded_ok
    THEN [all_results |-> Append(run.all_results, pair_metrics),
          total_metrics |-> UpdateTotals(run.total_metrics, pair_metrics)]
    ELSE [all_results |-> run.all_results,
          total_metrics |-> [run.total_metrics EXCEPT !.low_quality = @ + 1]]

\* The run's state, [all_results, total_metrics], after one pair: updated
\* when load_files returned True, left alone otherwise.
AfterPair(run, loaded_ok, pair_metrics) ==
    IF loaded_ok
    THEN [all_results |-> Append(run.all_results, pair_metrics),
          total_metrics |-> UpdateTotals(run.total_metrics, pair_metrics)]
    ELSE run

\* total_metrics with the averages
WithAverages(total_metrics) ==
    IF total_metrics.total_files > 0
    THEN LET n == Frac(total_metrics.total_files, 1)
         IN total_metrics @@
            [avg_precision |-> Quot(total_metrics.total_precision, n),
             avg_recall |-> Quot(total_metrics.total_recall, n),
             avg_f1_score |-> Quot(total_metrics.total_f1_score, n),
             avg_similarity |-> Quot(total_metrics.total_similarity, n)]
    ELSE total_metrics

(***************************************************************************)
(* The names of the model given to the name analyzer                       *)
(***************************************************************************)
\* The most parts a file name is put together from
MaxParts == 3

\* The parts: a stem, an extension, a digit, and text that the conflict and
\* removal patterns look for, in either case.
NameParts == {
    <<"F">>, <<".", "c">>, <<"1">>,
    <<".", "B", "A", "S", "E">>, <<"_", "l", "o", "c", "a", "l", "_">>,
    <<".", "o", "r", "i", "g">>, <<".", "R">>, <<".", "m", "e", "r", "g", "e", "-">>,
    <<"_", "c", "o", "n", "f", "l", "i", "c", "t", "_">>,
    <<"=", "=", "=", "=", "=", "=", "=">> }

RECURSIVE Concat(_, _)
Concat(parts, k) == IF k > Len(parts) THEN <<>> ELSE parts[k] \o Concat(parts, k + 1)

\* The literal names of section 8, and a name with two suffixes
Foo_BASE_java == <<"F", "o", "o", ".", "B", "A", "S", "E">> \o DotJava
Bar_LOCAL_2_py == <<"B", "a", "r", "_", "L", "O", "C", "A", "L", "_", "2", ".", "p", "y">>
x_marker_y == <<"x", "<", "<", "<", "<", "<", "<", "<", " ", "y">>
Foo_java == <<"F", "o", "o">> \o DotJava
Foo_BASE_java_orig == Foo_BASE_java \o <<".", "o", "r", "i", "g">>

\* One name for each conflict pattern that the parts do not spell
PatternNames == {
    <<"F", ".", "L", "O", "C", "A", "L", ".", "c">>,
    <<"F", ".", "R", "E", "M", "O", "T", "E", ".", "c">>,
    <<"F", ".", "B", "A", "C", "K", "U", "P", ".", "c">>,
    <<"F", "_", "B", "A", "C", "K", "U", "P", "_", "1">>,
    <<"F", "_", "B", "A", "S", "E", "_", "1">>,
    <<"F", "_", "R", "E", "M", "O", "T", "E", "_", "1">>,
    <<">", ">", ">", ">", ">", ">", ">", " ", "F">>,
    <<"F", ".", "r", "e", "j">>,
    <<"F", ".", "m", "i", "n", "e">>,
    <<"F", ".", "w", "o", "r", "k", "i", "n", "g">>,
    <<"F", "_", "m", "e", "r", "g", "e", "d", "_", "1">>,
    <<"F", ".", "c", "o", "n", "f", "l", "i", "c", "t", "e", "d", ".", "c">> }

AnalyzedNames ==
    {Concat(parts, 1) : parts \in UNION {[1..n -> NameParts] : n \in 1..MaxParts}}
        \cup {Foo_BASE_java, Bar_LOCAL_2_py, x_marker_y, Foo_java, Foo_BASE_java_orig}
        \cup PatternNames

\* The most candidates find_best_match is given
MaxCandidates == 2

Account_java == <<"A", "c", "c", "o", "u", "n", "t">> \o DotJava
account_java_orig == <<"a", "c", "c", "o", "u", "n", "t">> \o DotJava \o <<".", "o", "r", "i", "g">>
Account_v2_java == <<"A", "c", "c", "o", "u", "n", "t", "_", "v", "2">> \o DotJava
Account_v3_java == <<"A", "c", "c", "o", "u", "n", "t", "_", "v", "3">> \o DotJava
Unrelated_py == <<"U", "n", "r", "e", "l", "a", "t", "e", "d", ".", "p", "y">>
zzz_java == <<"z", "z", "z">> \o DotJava

\* Targets and candidates: a name, the same name in another case with a
\* conflict suffix, two names equally near to it, and two unlike names.
MatchNames == {Account_java, account_java_orig, Account_v2_java, Account_v3_java,
               Unrelated_py, zzz_java}

CandidateLists == UNION {[1..n -> MatchNames] : n \in 0..MaxCandidates}

\* The thresholds find_best_match is called with
Thresholds == {Zero, DefaultThreshold, Frac(9, 10)}

(***************************************************************************)
(* State                                                                   *)
(***************************************************************************)
VARIABLES
    pc,                         \* the step compare_directories_recursive is at
    merge_files,                \* the index of the merge tree
    expected_files,             \* the index of the expected tree
    expected_file_lists,        \* the candidate list find_corresponding_files used for
                                \* each merge path
    correspondences,            \* what find_corresponding_files returned
    match_stats,
    comparable_correspondences, \* the correspondences to compare
    call,                       \* the last call of the name analyzer, with its result
    comparator,                 \* a MergeComparator: "none", "new", "loaded", "failed"
    merge_lines,                \* the comparator's fields
    expected_lines,
    normalized_merge_lines,
    normalized_expected_lines,
    loads,                      \* the load_files calls made on the comparator so far
    metrics,                    \* what calculate_metrics returned for the loaded files
    loaded,                     \* what load_files returned for each pair compared so far
    all_results,                \* the metrics of the pairs compared so far
    total_metrics,              \* the run's summary
    result                      \* what compare_directories_recursive returned

resolverVars == <<pc, merge_files, expected_files, expected_file_lists, correspondences,
                  match_stats, comparable_correspondences>>
comparatorVars == <<comparator, merge_lines, expected_lines, normalized_merge_lines,
                    normalized_expected_lines, loads, metrics>>
runVars == <<loaded, all_results, total_metrics, result>>
vars == <<resolverVars, call, comparatorVars, runVars>>

\* No call yet, no metrics yet, no summary yet, not returned yet
NoCall == [op |-> "none"]
NoMetrics == [error |-> "none"]
NoTotals == [total_files |-> 0]
Running == <<"running">>

Init ==
    /\ pc = "scan"
    /\ merge_files = <<>>
    /\ expected_files = <<>>
    /\ expected_file_lists = <<>>
    /\ correspondences = <<>>
    /\ match_stats = EmptyStats
    /\ comparable_correspondences = <<>>
    /\ call = NoCall
    /\ comparator = "none"
    /\ merge_lines = <<>>
    /\ expected_lines = <<>>
    /\ normalized_merge_lines = <<>>
    /\ normalized_expected_lines = <<>>
    /\ loads = <<>>
    /\ metrics = NoMetrics
    /\ loaded = <<>>
    /\ all_results = <<>>
    /\ total_metrics = NoTotals
    /\ result = Running

\* The two scan_directory calls, on trees with the given indexes
ScanTrees(indexes) ==
    /\ pc = "scan"
    /\ \E m \in indexes, e \in indexes :
          /\ merge_files' = m
          /\ expected_files' = e
    /\ pc' = "resolve"
    /\ UNCHANGED <<expected_file_lists, correspondences, match_stats,
                   comparable_correspondences, call, comparatorVars, runVars>>

\* The trees hold any files within the bounds.
ScanDirectories == ScanTrees(Indexes)

\* The call of find_corresponding_files
FindCorrespondences ==
    /\ pc = "resolve"
    /\ LET r == find_corresponding_files(merge_files, expected_files)
       IN /\ correspondences' = r.correspondences
          /\ match_stats' = r.merge_stats
    /\ expected_file_lists' = ExpectedFileLists(merge_files, expected_files)
    /\ pc' = "filter"
    /\ UNCHANGED <<merge_files, expected_files, comparable_correspondences, call,
                   comparatorVars, runVars>>

\* The filter of the comparable correspondences; with none of them the run
\* returns at once.
FilterComparable ==
    /\ pc = "filter"
    /\ comparable_correspondences' = ComparableOf(correspondences)
    /\ IF ComparableOf(correspondences) = <<>>
       THEN /\ pc' = "returned"
            /\ result' = None
            /\ UNCHANGED total_metrics
       ELSE /\ pc' = "compare"
            /\ total_metrics' = InitialTotals(ComparableOf(correspondences))
            /\ UNCHANGED result
    /\ UNCHANGED <<merge_files, expected_files, expected_file_lists, correspondences,
                   match_stats, call, comparatorVars, loaded, all_results>>

\* The run up to the selection of the comparable correspondences
Next == ScanDirectories \/ FindCorrespondences \/ FilterComparable

Spec == Init /\ [][Next]_vars

(***************************************************************************)
(* The same steps on trees whose paths are similar to each other           *)
(***************************************************************************)
ScanSimilarPaths == ScanTrees(PathIndexes)

NextPaths == ScanSimilarPaths \/ FindCorrespondences \/ FilterComparable

SpecPaths == Init /\ [][NextPaths]_vars

(***************************************************************************)
(* The whole run of compare_directories_recursive, on trees whose files    *)
(* are in the root directory.                                              *)
(***************************************************************************)
ScanRunDirectories == ScanTrees(RunIndexes)

\* One iteration of the comparison loop: the paths of the pair's two files, a
\* new MergeComparator, load_files on the two paths, whose files hold any of
\* the given contents and may not open, and with the files loaded
\* calculate_metrics and the summary's update.  No output directory is given.
ComparePairOf(contents) ==
    /\ pc = "compare"
    /\ Len(loaded) < Len(comparable_correspondences)
    /\ LET correspondence == comparable_correspondences[Len(loaded) + 1]
           paths == PathsOf(correspondence)
       IN \E merge_content \in contents, expected_content \in contents,
             outcome \in Outcomes(merge_files, expected_files, paths) :
             LET r == load_files(NewSelf, merge_content, expected_content, outcome)
                 computed == calculate_metrics(r.self.normalized_merge_lines,
                                               r.self.normalized_expected_lines)
                 raised == r.result /\ computed = MetricsError
                 run == AfterPair([all_results |-> all_results,
                                   total_metrics |-> total_metrics],
                                  r.result,
                                  IF r.result /\ ~raised
                                  THEN PairMetrics(computed, correspondence) ELSE NoMetrics)
             IN /\ merge_lines' = r.self.merge_lines
                /\ expected_lines' = r.self.expected_lines
                /\ normalized_merge_lines' = r.self.normalized_merge_lines
                /\ normalized_expected_lines' = r.self.normalized_expected_lines
                /\ comparator' = IF r.result THEN "loaded" ELSE "failed"
                /\ loads' = <<LoadOf(merge_content, expected_content, outcome) @@ paths>>
                /\ metrics' = IF r.result THEN computed ELSE NoMetrics
                /\ loaded' = Append(loaded, r.result)
                /\ IF raised
                   THEN /\ pc' = "raised"
                        /\ UNCHANGED <<all_results, total_metrics>>
                   ELSE /\ pc' = pc
                        /\ all_results' = run.all_results
                        /\ total_metrics' = run.total_metrics
    /\ UNCHANGED <<merge_files, expected_files, expected_file_lists, correspondences,
                   match_stats, comparable_correspondences, call, result>>

ComparePair == ComparePairOf(RunContents)

\* After the last pair: the averages and the return
FinishRun ==
    /\ pc = "compare"
    /\ Len(loaded) = Len(comparable_correspondences)
    /\ total_metrics' = WithAverages(total_metrics)
    /\ result' = <<all_results, WithAverages(total_metrics), correspondences>>
    /\ pc' = "returned"
    /\ UNCHANGED <<merge_files, expected_files, expected_file_lists, correspondences,
                   match_stats, comparable_correspondences, call, comparatorVars,
                   loaded, all_results>>

NextRun ==
    ScanRunDirectories \/ FindCorrespondences \/ FilterComparable \/ ComparePair \/ FinishRun

SpecRun == Init /\ [][NextRun]_vars

(***************************************************************************)
(* The whole run on trees whose paths are similar to each other            *)
(***************************************************************************)
NextFallback ==
    ScanSimilarPaths \/ FindCorrespondences \/ FilterComparable \/ ComparePair \/ FinishRun

SpecFallback == Init /\ [][NextFallback]_vars

(***************************************************************************)
(* The whole run on trees whose file names are similar to each other to    *)
(* the degrees of the quality tiers                                        *)
(***************************************************************************)
ScanTierDirectories == ScanTrees(TierIndexes)

ComparePairOfTiers == ComparePairOf(TierContents)

NextTiers ==
    \/ ScanTierDirectories
    \/ FindCorrespondences
    \/ FilterComparable
    \/ ComparePairOfTiers
    \/ FinishRun

SpecTiers == Init /\ [][NextTiers]_vars

(***************************************************************************)
(* The name analyzer called on its own: one call, of any of its functions, *)
(* on any of the model's names.                                            *)
(***************************************************************************)
CallIsConflictFile ==
    /\ call = NoCall
    /\ \E name \in AnalyzedNames :
          call' = [op |-> "is_conflict_file", filename |-> name,
                   result |-> is_conflict_file(name)]
    /\ UNCHANGED <<resolverVars, comparatorVars, runVars>>

CallExtractBaseName ==
    /\ call = NoCall
    /\ \E name \in AnalyzedNames :
          call' = [op |-> "extract_base_name", filename |-> name,
                   result |-> extract_base_name(name)]
    /\ UNCHANGED <<resolverVars, comparatorVars, runVars>>

CallFindBestMatch ==
    /\ call = NoCall
    /\ \E target \in MatchNames, candidates \in CandidateLists, threshold \in Thresholds :
          call' = [op |-> "find_best_match", target_name |-> target,
                   candidate_names |-> candidates, threshold |-> threshold,
                   result |-> find_best_match(target, candidates, threshold)]
    /\ UNCHANGED <<resolverVars, comparatorVars, runVars>>

NextName == CallIsConflictFile \/ CallExtractBaseName \/ CallFindBestMatch

SpecName == Init /\ [][NextName]_vars

(***************************************************************************)
(* The scanner called on its own: one scan_directory, of any of the        *)
(* model's directory trees, by a scanner of any of the extension lists.    *)
(***************************************************************************)
CallScanDirectory ==
    /\ call = NoCall
    /\ \E file_extensions \in ExtensionLists, directory \in DirectoryTrees :
          call' = [op |-> "scan_directory", file_extensions |-> file_extensions,
                   directory |-> directory,
                   result |-> scan_directory(file_extensions, directory)]
    /\ UNCHANGED <<resolverVars, comparatorVars, runVars>>

NextScan == CallScanDirectory

SpecScan == Init /\ [][NextScan]_vars

(***************************************************************************)
(* The comparator as its callers use it: a new MergeComparator, one        *)
(* load_files, and calculate_metrics when the load succeeded.              *)
(***************************************************************************)
\* MergeComparator()
NewComparator ==
    /\ comparator' = "new"
    /\ merge_lines' = <<>>
    /\ expected_lines' = <<>>
    /\ normalized_merge_lines' = <<>>
    /\ normalized_expected_lines' = <<>>
    /\ loads' = <<>>
    /\ metrics' = NoMetrics
    /\ UNCHANGED <<resolverVars, call, runVars>>

\* The comparator's fields as a record
Self ==
    [merge_lines |-> merge_lines, expected_lines |-> expected_lines,
     normalized_merge_lines |-> normalized_merge_lines,
     normalized_expected_lines |-> normalized_expected_lines]

\* One load_files call on the comparator, of two files that hold any of the
\* given contents; either open may fail.
LoadFilesOf(contents) ==
    /\ \E merge_content \in contents, expected_content \in contents,
          outcome \in {"ok", "merge_unreadable", "expected_unreadable"} :
          LET r == load_files(Self, merge_content, expected_content, outcome)
          IN /\ merge_lines' = r.self.merge_lines
             /\ expected_lines' = r.self.expected_lines
             /\ normalized_merge_lines' = r.self.normalized_merge_lines
             /\ normalized_expected_lines' = r.self.normalized_expected_lines
             /\ comparator' = IF r.result THEN "loaded" ELSE "failed"
             /\ loads' = Append(loads, LoadOf(merge_content, expected_content, outcome))
    /\ UNCHANGED <<resolverVars, call, metrics, runVars>>

\* load_files on a new comparator: the two files hold any lines within the
\* bounds.
LoadFiles ==
    /\ comparator = "new"
    /\ LoadFilesOf(FileContents)

\* calculate_metrics, called when load_files returned True
CalculateMetrics ==
    /\ comparator = "loaded"
    /\ metrics' = calculate_metrics(normalized_merge_lines, normalized_expected_lines)
    /\ UNCHANGED <<resolverVars, call, comparator, merge_lines, expected_lines,
                   normalized_merge_lines, normalized_expected_lines, loads, runVars>>

NextComparator == NewComparator \/ LoadFiles \/ CalculateMetrics

SpecComparator == Init /\ [][NextComparator]_vars

(***************************************************************************)
(* One comparator used for several load_files calls, one after the other   *)
(***************************************************************************)
\* MergeComparator(), once
CreateComparator ==
    /\ comparator = "none"
    /\ NewComparator

\* One more load_files on the comparator, whatever the earlier ones returned
LoadFilesAgain ==
    /\ comparator # "none"
    /\ Len(loads) < MaxLoads
    /\ LoadFilesOf(LoadContents)

NextLoads == CreateComparator \/ LoadFilesAgain

SpecLoads == Init /\ [][NextLoads]_vars

\* find_corresponding_files has returned
Resolved == pc \in {"filter", "compare", "returned", "raised"}
\* the comparable correspondences are selected
Filtered == pc \in {"compare", "returned", "raised"}

(***************************************************************************)
(* Properties of the scanner                                               *)
(***************************************************************************)
ScanCalled == call.op = "scan_directory"

\* The directories of a tree that the walk comes to and cannot list
Unlistable(directory) ==
    IF directory.status # "readable" THEN {<<>>}
    ELSE {directory.dirs[k].name :
            k \in {k \in 1..Len(directory.dirs) : directory.dirs[k].dir.status # "readable"}}

\* The tree with the directories that cannot be listed replaced by empty
\* directories
Emptied(directory) ==
    IF directory.status # "readable" THEN Dir("readable", <<>>, <<>>)
    ELSE Dir("readable", directory.files,
             [k \in 1..Len(directory.dirs) |->
                [name |-> directory.dirs[k].name,
                 dir |-> IF directory.dirs[k].dir.status = "readable"
                         THEN directory.dirs[k].dir
                         ELSE Dir("readable", <<>>, <<>>)]])

\* C11: scan_directory fails as a whole when the root or a subdirectory the
\* walk comes to is unreadable or not found: it raises and returns no index,
\* and so does not report such a directory the way it reports a directory
\* without qualifying files.
C11_ScanFails ==
    ScanCalled /\ Unlistable(call.directory) # {} =>
        /\ call.result.raised
        /\ call.result # scan_directory(call.file_extensions, Emptied(call.directory))

\* The file ends with one of the extensions and is no temporary file
Qualifies(file, extensions) ==
    /\ \E e \in 1..Len(extensions) : EndsWith(file, extensions[e])
    /\ ~is_temp_file(file)

\* The directories of a tree, as <<relative path, files>>
DirectoriesOf(directory) ==
    IF directory.status = "missing" THEN {}
    ELSE {<<<<>>, directory.files>>}
         \cup {<<directory.dirs[k].name, directory.dirs[k].dir.files>> :
                 k \in 1..Len(directory.dirs)}

\* C15: the index scan_directory returns has a key for a relative path
\* exactly when that directory holds a qualifying file; under the key are the
\* qualifying files of the directory, all of them and no other file, and no
\* key has an empty list.
C15_IndexOfQualifying ==
    ScanCalled /\ ~call.result.raised =>
        LET index == call.result.index
            extensions == file_extensions_of(call.file_extensions)
            qualifying(files) ==
                SelectSeq(files, LAMBDA file : Qualifies(file, extensions))
        IN /\ \A d \in DirectoriesOf(call.directory) :
                 /\ qualifying(d[2]) # <<>> <=> \E k \in 1..Len(index) : index[k].path = d[1]
                 /\ \A k \in 1..Len(index) :
                       index[k].path = d[1] => index[k].files = qualifying(d[2])
           /\ \A k \in 1..Len(index) :
                 /\ index[k].files # <<>>
                 /\ \E d \in DirectoriesOf(call.directory) : d[1] = index[k].path
                 /\ \A j \in 1..Len(index) : index[j].path = index[k].path => j = k

\* C15 for the trees whose directories can all be listed
ReadableIndexOfQualifying ==
    ScanCalled /\ Unlistable(call.directory) = {} => C15_IndexOfQualifying

(***************************************************************************)
(* Properties of the resolver                                              *)
(***************************************************************************)
Kinds == {"exact_match", "fuzzy_match", "conflict_file", "no_match", "missing_in_merge"}

\* The <<path, file>> pairs of an index
PairsOf(index) ==
    UNION {{<<index[k].path, index[k].files[i]>> : i \in 1..Len(index[k].files)} :
           k \in 1..Len(index)}

\* The file names of the model's trees that is_conflict_file accepts
ConflictNames == {f \in FileNames : is_conflict_file(f)}

\* The positions of the correspondences of the merge file f of path p
MergeSide(p, f) ==
    {k \in 1..Len(correspondences) :
        /\ correspondences[k].merge_file = f
        /\ correspondences[k].scenario = Scenario(p, f)}

\* The positions of the missing_in_merge correspondences of the expected file
\* f of path p
MissingSide(p, f) ==
    {k \in 1..Len(correspondences) :
        /\ correspondences[k].type = "missing_in_merge"
        /\ correspondences[k].expected_file = f
        /\ correspondences[k].scenario = Scenario(p, f)}

\* How many correspondences have the kind
CountKind(kind) == Cardinality({k \in 1..Len(correspondences) : correspondences[k].type = kind})

\* C1: every correspondence resolve returns has one kind of the five;
\* conflict_file, missing_in_merge and no_match entries have score 0.0 and
\* exact_match entries have score 1.0.
C1_KindAndScore ==
    Resolved =>
        \A k \in 1..Len(correspondences) :
            LET c == correspondences[k]
            IN /\ c.type \in Kinds
               /\ c.type \in {"conflict_file", "missing_in_merge", "no_match"}
                     => c.match_score = Zero
               /\ c.type = "exact_match" => c.match_score = One

\* A run whose result holds an exact match, a conflict file and a missing file
C1_Witness ==
    /\ Resolved
    /\ CountKind("exact_match") > 0
    /\ CountKind("conflict_file") > 0
    /\ CountKind("missing_in_merge") > 0

\* The scenario of section 8: merge A.java and A.java.orig, expected A.java
ScenarioMerge == <<[path |-> <<>>, files |-> <<A_java, A_java_orig>>]>>
ScenarioExpected == <<[path |-> <<>>, files |-> <<A_java>>]>>

\* C2: a merge file with a conflict name gets one conflict_file correspondence
\* (no expected file, score 0.0, issue conflict_file) and no other, also when
\* its name is in the candidate list, and it is never comparable; the scenario
\* of section 8 gives an exact_match, a conflict_file and 1 comparable
\* correspondence.
C2_ConflictFile ==
    Resolved =>
        /\ \A pf \in PairsOf(merge_files) :
              pf[2] \in ConflictNames =>
                 /\ Cardinality(MergeSide(pf[1], pf[2])) = 1
                 /\ \A k \in MergeSide(pf[1], pf[2]) :
                       /\ correspondences[k] = Entry("conflict_file", Scenario(pf[1], pf[2]),
                                                     pf[2], None, Zero, <<"conflict_file">>)
                       /\ Filtered =>
                             \A i \in 1..Len(comparable_correspondences) :
                                 comparable_correspondences[i] # correspondences[k]
        /\ merge_files = ScenarioMerge /\ expected_files = ScenarioExpected =>
              /\ correspondences =
                    << Entry("exact_match", A_java, A_java, A_java, One, <<>>),
                       Entry("conflict_file", A_java_orig, A_java_orig, None, Zero,
                             <<"conflict_file">>) >>
              /\ Filtered => Len(comparable_correspondences) = 1

\* A filtered run with a conflict-named merge file whose name is in the
\* candidate list of its path
C2_Witness ==
    /\ Filtered
    /\ \E pf \in PairsOf(merge_files) :
          /\ pf[2] \in ConflictNames
          /\ \E i \in 1..Len(CandidateList(pf[1], expected_files)) :
                CandidateList(pf[1], expected_files)[i] = pf[2]
    /\ comparable_correspondences # <<>>

\* C3: an expected file (p, f) that no correspondence of a merge file of path
\* exactly p names as its expected file gets exactly one missing_in_merge
\* correspondence with the scenario of (p, f).
C3_MissingInMerge ==
    Resolved =>
        \A pf \in PairsOf(expected_files) :
            (~\E mf \in PairsOf(merge_files) :
                 /\ mf[1] = pf[1]
                 /\ \E k \in MergeSide(mf[1], mf[2]) : correspondences[k].expected_file = pf[2])
            => Cardinality(MissingSide(pf[1], pf[2])) = 1

\* The two indexes hold the same paths with the same file names
SameFiles == PairsOf(merge_files) = PairsOf(expected_files)

\* C4: when the two indexes hold the same paths with the same file names, none
\* a conflict name, resolve returns one exact_match per file and nothing else,
\* and the stats count the files as exact matches and nothing else.
C4_SameTrees ==
    Resolved /\ SameFiles /\ (\A pf \in PairsOf(merge_files) : pf[2] \notin ConflictNames) =>
        /\ Len(correspondences) = Cardinality(PairsOf(merge_files))
        /\ \A pf \in PairsOf(merge_files) :
              \E k \in 1..Len(correspondences) :
                  correspondences[k] =
                      Entry("exact_match", Scenario(pf[1], pf[2]), pf[2], pf[2], One, <<>>)
        /\ match_stats = [exact_matches |-> Cardinality(PairsOf(merge_files)),
                          fuzzy_matches |-> 0, no_matches |-> 0, conflict_files |-> 0]

\* A resolved run over two trees of the same two files, listed in different
\* orders
C4_Witness ==
    /\ Resolved
    /\ SameFiles
    /\ merge_files # expected_files
    /\ Cardinality(PairsOf(merge_files)) = 2
    /\ \A pf \in PairsOf(merge_files) : pf[2] \notin ConflictNames

\* The files of an index in iteration order, as <<path, file>> pairs
RECURSIVE FilesInOrder(_, _)
FilesInOrder(index, k) ==
    IF k > Len(index) THEN <<>>
    ELSE [i \in 1..Len(index[k].files) |-> <<index[k].path, index[k].files[i]>>]
         \o FilesInOrder(index, k + 1)

\* The positions of the correspondences that name a merge file
MergeSidePositions == {k \in 1..Len(correspondences) : correspondences[k].merge_file # None}

\* C16: resolve returns exactly one correspondence with a merge file for each
\* file of the merge index; each of the four counters of the stats is the
\* number of correspondences of its kind, their sum is the number of files of
\* the merge index, and missing_in_merge entries are counted by none.
C16_OnePerMergeFile ==
    Resolved =>
        /\ \A pf \in PairsOf(merge_files) : Cardinality(MergeSide(pf[1], pf[2])) = 1
        /\ Cardinality(MergeSidePositions) = Cardinality(PairsOf(merge_files))
        /\ match_stats.exact_matches = CountKind("exact_match")
        /\ match_stats.fuzzy_matches = CountKind("fuzzy_match")
        /\ match_stats.no_matches = CountKind("no_match")
        /\ match_stats.conflict_files = CountKind("conflict_file")
        /\ match_stats.exact_matches + match_stats.fuzzy_matches
              + match_stats.no_matches + match_stats.conflict_files
           = Cardinality(PairsOf(merge_files))
        /\ DOMAIN match_stats
           = {"exact_matches", "fuzzy_matches", "no_matches", "conflict_files"}

\* A resolved run with a merge file without a match, a merge file of another
\* kind and a file missing in merge
C16_Witness ==
    /\ Resolved
    /\ match_stats.no_matches = 1
    /\ Cardinality(PairsOf(merge_files)) = 2
    /\ CountKind("missing_in_merge") > 0

\* The positions of the expected paths whose similarity to the path exceeds 0.8
SimilarTo(path) ==
    {j \in 1..Len(expected_files) : Less(Frac(8, 10), Ratio(path, expected_files[j].path))}

\* The positions of the expected paths equal to the path
SameAs(path) == {j \in 1..Len(expected_files) : expected_files[j].path = path}

\* The least number of a set of numbers
Least(S) == CHOOSE j \in S : \A i \in S : j <= i

\* C17: the candidate list of a merge path is the expected file list of the
\* same path when the expected index has the path; otherwise that of the first
\* expected path, in iteration order, whose similarity to the merge path is
\* above 0.8; otherwise empty.
C17_CandidateList ==
    Resolved =>
        /\ Len(expected_file_lists) = Len(merge_files)
        /\ \A k \in 1..Len(merge_files) :
              LET path == merge_files[k].path
              IN expected_file_lists[k] =
                    IF SameAs(path) # {} THEN expected_files[Least(SameAs(path))].files
                    ELSE IF SimilarTo(path) # {}
                         THEN expected_files[Least(SimilarTo(path))].files
                         ELSE <<>>

\* A resolved run with a merge path that the expected index does not have,
\* with two expected paths similar to it, of different file lists
C17_Witness ==
    /\ Resolved
    /\ Len(merge_files) = 1
    /\ SameAs(merge_files[1].path) = {}
    /\ Cardinality(SimilarTo(merge_files[1].path)) = 2
    /\ expected_files[1].files # expected_files[2].files
    /\ expected_file_lists[1] = expected_files[1].files

\* What find_best_match gives for a file of the model's trees and a candidate
\* list, with the threshold 0.6
BestMatchOf ==
    [x \in FileNames \X FileLists |-> find_best_match(x[1], x[2], Frac(6, 10))] @@ <<>>

\* The merge files that are no conflict files and are not in their candidate
\* list, as <<path, file, candidate list>>
Unlisted ==
    UNION {{<<merge_files[k].path, merge_files[k].files[i], expected_file_lists[k]>> :
              i \in {i \in 1..Len(merge_files[k].files) :
                       /\ merge_files[k].files[i] \notin ConflictNames
                       /\ \A j \in 1..Len(expected_file_lists[k]) :
                             expected_file_lists[k][j] # merge_files[k].files[i]}} :
           k \in 1..Len(merge_files)}

\* C18: a merge file that is no conflict file and is not in the candidate list
\* gets a fuzzy_match with the score find_best_match returned, between 0.6 and
\* 1.0, and the issue name_mismatch exactly when the score is below 0.9, when
\* find_best_match finds a match; and a no_match without expected file, with
\* score 0.0 and the issue missing_correspondence, when it finds none.
C18_FuzzyOrNoMatch ==
    Resolved =>
        \A u \in Unlisted :
            LET m == BestMatchOf[<<u[2], u[3]>>]
            IN \A k \in MergeSide(u[1], u[2]) :
                  LET c == correspondences[k]
                  IN IF m[1] # None
                     THEN /\ c.type = "fuzzy_match"
                          /\ c.expected_file = m[1]
                          /\ c.match_score = m[2]
                          /\ LessEq(Frac(6, 10), c.match_score)
                          /\ LessEq(c.match_score, One)
                          /\ c.quality_issues =
                                IF Less(c.match_score, Frac(9, 10))
                                THEN <<"name_mismatch">> ELSE <<>>
                     ELSE c = Entry("no_match", Scenario(u[1], u[2]), u[2], None, Zero,
                                    <<"missing_correspondence">>)

\* A resolved run with a fuzzy match of a score below 0.9 and a fuzzy match of
\* score 1.0
C18_Witness ==
    /\ Resolved
    /\ \E k \in 1..Len(correspondences) :
          /\ correspondences[k].type = "fuzzy_match"
          /\ Less(correspondences[k].match_score, Frac(9, 10))
          /\ correspondences[k].quality_issues = <<"name_mismatch">>
    /\ \E k \in 1..Len(correspondences) :
          /\ correspondences[k].type = "fuzzy_match"
          /\ correspondences[k].match_score = One
          /\ correspondences[k].quality_issues = <<>>

\* C19: in the list resolve returns the correspondences of the merge files
\* come first, in the iteration order of the merge index and within a path in
\* the order of its file list, and every missing_in_merge entry comes after
\* them.
C19_MergeSideFirst ==
    Resolved =>
        LET files == FilesInOrder(merge_files, 1)
        IN /\ Len(files) <= Len(correspondences)
           /\ \A k \in 1..Len(correspondences) :
                 IF k <= Len(files)
                 THEN /\ correspondences[k].type # "missing_in_merge"
                      /\ correspondences[k].merge_file = files[k][2]
                      /\ correspondences[k].scenario = Scenario(files[k][1], files[k][2])
                 ELSE correspondences[k].type = "missing_in_merge"

\* A resolved run with two merge files of different kinds, in two
\* directories, and a file missing in merge
C19_Witness ==
    /\ Resolved
    /\ Len(merge_files) = 2
    /\ Len(correspondences) = 3
    /\ correspondences[1].type # correspondences[2].type
    /\ correspondences[3].type = "missing_in_merge"

\* The positions in the merge index of the paths under which the merge file
\* of the correspondence has its scenario
MergePathsOf(c) ==
    {k \in 1..Len(merge_files) :
        /\ Scenario(merge_files[k].path, c.merge_file) = c.scenario
        /\ \E i \in 1..Len(merge_files[k].files) : merge_files[k].files[i] = c.merge_file}

\* The expected path whose file list was the candidate list of merge path k
FoundAt(k) ==
    IF SameAs(merge_files[k].path) # {} THEN merge_files[k].path
    ELSE expected_files[Least(SimilarTo(merge_files[k].path))].path

\* The scenario keys as claimed: path/file, or the file for the root path, of
\* the merge files in order and then of the expected files that are missing
KeyOfSomeFile(k) ==
    LET c == correspondences[k]
    IN IF c.type = "missing_in_merge"
       THEN \E x \in PairsOf(expected_files) :
               c.expected_file = x[2] /\ c.scenario = Scenario(x[1], x[2])
       ELSE \E x \in PairsOf(merge_files) :
               c.merge_file = x[2] /\ c.scenario = Scenario(x[1], x[2])

\* C27: for indexes that list no file name twice under one path, the scenario
\* keys of the returned correspondences are pairwise distinct, each the path
\* and the file name joined by a slash, or the file name alone for the root,
\* of the merge file, and of the expected file for a missing_in_merge.
C27_DistinctKeys ==
    Resolved =>
        /\ \A k \in 1..Len(correspondences) : KeyOfSomeFile(k)
        /\ \A i, j \in 1..Len(correspondences) :
              i # j => correspondences[i].scenario # correspondences[j].scenario

\* C27 for the trees whose expected side holds no file that is a conflict file
\* of the merge side
DistinctKeysWithoutConflictFiles ==
    PairsOf(expected_files) \cap {x \in PairsOf(merge_files) : x[2] \in ConflictNames} = {}
        => C27_DistinctKeys

\* C29: no file of the expected index is the expected_file of the comparable
\* correspondences of two merge files of the same relative path.
C29_NoSharedExpectedFile ==
    Resolved =>
        \A k \in 1..Len(merge_files) :
            \A i, j \in 1..Len(correspondences) :
                /\ i # j
                /\ IsComparable(correspondences[i])
                /\ IsComparable(correspondences[j])
                /\ k \in MergePathsOf(correspondences[i])
                /\ k \in MergePathsOf(correspondences[j])
                => correspondences[i].expected_file # correspondences[j].expected_file

(***************************************************************************)
(* Properties of the run                                                   *)
(***************************************************************************)
\* The positions of the comparable pairs whose files were loaded, and of
\* those whose load failed
LoadedPairs == {k \in 1..Len(loaded) : loaded[k]}
FailedPairs == {k \in 1..Len(loaded) : ~loaded[k]}

\* How many of the first k pairs were loaded
LoadedUpTo(k) == Cardinality({j \in LoadedPairs : j <= k})

\* The counters of the quality tiers
TierCounters == {"perfect_matches", "high_quality", "medium_quality", "low_quality"}

RECURSIVE SumOf(_, _)
SumOf(f, keys) ==
    IF keys = {} THEN 0
    ELSE LET key == CHOOSE key \in keys : TRUE IN f[key] + SumOf(f, keys \ {key})

\* compare_directories_recursive is in its loop or has returned from it
InLoop == pc \in {"compare", "raised"} \/ (pc = "returned" /\ result # None)

\* C12: a pair whose load fails gets no metrics, no entry in the results and
\* no increment of a quality tier; the other pairs are compared all the same,
\* in order, and the run returns after the last comparable correspondence.
C12_LoadFailureIsLocal ==
    InLoop =>
        /\ pc # "raised"
        /\ Len(loaded) <= Len(comparable_correspondences)
        /\ pc = "returned" => Len(loaded) = Len(comparable_correspondences)
        /\ Len(all_results) = Cardinality(LoadedPairs)
        /\ SumOf(total_metrics, TierCounters) = Cardinality(LoadedPairs)
        /\ \A k \in LoadedPairs :
              /\ all_results[LoadedUpTo(k)].scenario = comparable_correspondences[k].scenario
              /\ all_results[LoadedUpTo(k)].merge_file = comparable_correspondences[k].merge_file
        /\ pc = "compare" /\ loaded # <<>> /\ ~loaded[Len(loaded)] => metrics = NoMetrics

\* A run of three pairs that has returned: the load of the second failed, the
\* first and the third were compared
C12_Witness ==
    /\ pc = "returned"
    /\ loaded = <<TRUE, FALSE, TRUE>>
    /\ Len(all_results) = 2
    /\ all_results[2].scenario = comparable_correspondences[3].scenario

\* The counters of the summary
Counters == TierCounters \cup {"total_files", "name_quality_issues", "structural_issues"}

\* C13: the result of a run holds a count of the pairs whose load failed:
\* some counter of the returned summary is the number of comparable pairs for
\* which load_files returned False.
C13_FailureCount ==
    pc = "returned" /\ result # None =>
        \E key \in Counters \cap DOMAIN result[2] :
            result[2][key] = Cardinality(FailedPairs)

\* C14: with no comparable correspondence the run is no error: resolve
\* returns, with all stats 0 for two empty indexes, and the run returns a
\* result of the shape of any other run, with no metrics and total_files 0.
C14_EmptyResult ==
    pc = "returned" /\ comparable_correspondences = <<>> =>
        /\ merge_files = <<>> => match_stats = EmptyStats
        /\ result # None
        /\ Len(result) = 3
        /\ result[1] = <<>>
        /\ result[2].total_files = 0
        /\ result[3] = correspondences

\* C25: the comparison loop loads the expected file of a comparable
\* correspondence from the expected path whose file list supplied the match,
\* the fallback path when the match came through it, so that the file it
\* opens is a file of the scanned expected tree.
C25_LoadedWhereFound ==
    loads # <<>> =>
        LET c == comparable_correspondences[Len(loaded)]
        IN \A k \in MergePathsOf(c) :
              /\ loads[1].expected_path = Joined(FoundAt(k), c.expected_file)
              /\ Exists(expected_files, loads[1].expected_path)

\* The sum of a field of the first k results
RECURSIVE TotalOf(_, _, _)
TotalOf(results, field, k) ==
    IF k = 0 THEN Zero ELSE Add(TotalOf(results, field, k - 1), results[k][field])

\* The arithmetic mean of a field of the results
MeanOf(results, field) ==
    Quot(TotalOf(results, field, Len(results)), Frac(Len(results), 1))

\* C26: in the summary a run returns, avg_precision, avg_recall and
\* avg_similarity are the means of precision, recall and similarity_ratio of
\* the results of the pairs that were compared, and avg_f1_score the mean of
\* their adjusted_f1_score, also when pairs failed to load.
C26_Averages ==
    pc = "returned" /\ result # None /\ all_results # <<>> =>
        /\ result[2].avg_precision = MeanOf(result[1], "precision")
        /\ result[2].avg_recall = MeanOf(result[1], "recall")
        /\ result[2].avg_similarity = MeanOf(result[1], "similarity_ratio")
        /\ result[2].avg_f1_score = MeanOf(result[1], "adjusted_f1_score")

\* C26 for the runs in which every pair was loaded
AveragesOfFullRuns ==
    FailedPairs = {} => C26_Averages

\* The correspondence of the k-th result: that of the k-th pair that was loaded
PairOfResult(k) ==
    comparable_correspondences[CHOOSE j \in LoadedPairs : LoadedUpTo(j) = k]

\* The results whose adjusted F1 score is at least low and below high
ResultsWithin(low, high) ==
    {k \in 1..Len(all_results) :
        /\ LessEq(low, all_results[k].adjusted_f1_score)
        /\ Less(all_results[k].adjusted_f1_score, high)}

\* C23: the adjusted_f1_score of every compared pair is its f1_score times
\* the match_score of its correspondence, hence at most its f1_score, and the
\* pair is counted in one tier by it: perfect for 1.0, high from 0.9 to below
\* 1.0, medium from 0.7 to below 0.9, low below 0.7; the four counters add up
\* to the number of results.
C23_AdjustedScoreAndTiers ==
    InLoop =>
        /\ \A k \in 1..Len(all_results) :
              /\ all_results[k].match_score = PairOfResult(k).match_score
              /\ all_results[k].adjusted_f1_score =
                    Frac(all_results[k].f1_score.num * all_results[k].match_score.num,
                         all_results[k].f1_score.den * all_results[k].match_score.den)
              /\ LessEq(all_results[k].adjusted_f1_score, all_results[k].f1_score)
        /\ total_metrics.perfect_matches =
              Cardinality({k \in 1..Len(all_results) : all_results[k].adjusted_f1_score = One})
        /\ total_metrics.high_quality = Cardinality(ResultsWithin(Frac(9, 10), One))
        /\ total_metrics.medium_quality = Cardinality(ResultsWithin(Frac(7, 10), Frac(9, 10)))
        /\ total_metrics.low_quality = Cardinality(ResultsWithin(Zero, Frac(7, 10)))
        /\ SumOf(total_metrics, TierCounters) = Len(all_results)
        /\ pc = "returned" =>
              SumOf(result[2], TierCounters) = Len(result[1])

\* A finished run of two pairs with identical lines whose names are similar
\* to the degrees 0.9 and 0.7: one counted high, the other medium
C23_Witness ==
    /\ pc = "returned"
    /\ result # None
    /\ Len(all_results) = 2
    /\ all_results[1].f1_score = One
    /\ all_results[1].adjusted_f1_score = Frac(9, 10)
    /\ all_results[2].f1_score = One
    /\ all_results[2].adjusted_f1_score = Frac(7, 10)
    /\ total_metrics.high_quality = 1
    /\ total_metrics.medium_quality = 1

\* The lines of a result are the same set, not empty, on both sides
SameLineSets(r) == r.extra_lines = 0 /\ r.missing_lines = 0 /\ r.correct_lines > 0

\* C30: a compared pair is counted in perfect_matches exactly when its
\* match_score is 1.0 and the sets of the distinct normalized lines of its two
\* files are equal and not empty, whatever the order and the repetitions of
\* the lines, also for a fuzzy_match.
C30_PerfectMatches ==
    InLoop =>
        /\ total_metrics.perfect_matches =
              Cardinality({k \in 1..Len(all_results) :
                             /\ all_results[k].match_score = One
                             /\ SameLineSets(all_results[k])})
        /\ loads # <<>> /\ loads[1].result =>
              (SameLineSets(all_results[Len(all_results)])
                 <=> /\ ToSet(normalized_merge_lines) = ToSet(normalized_expected_lines)
                     /\ normalized_merge_lines # <<>>)

\* A fuzzy_match of similarity 1.0 whose files hold the same lines in another
\* order and one of them twice, counted perfect
C30_Witness ==
    /\ InLoop
    /\ Len(all_results) = 1
    /\ loads[1].result
    /\ all_results[1].match_type = "fuzzy_match"
    /\ all_results[1].match_score = One
    /\ Len(normalized_merge_lines) # Len(normalized_expected_lines)
    /\ normalized_merge_lines[1] # normalized_expected_lines[1]
    /\ Less(all_results[1].line_order_accuracy, One)
    /\ total_metrics.perfect_matches = 1

(***************************************************************************)
(* Properties of load_files                                                *)
(***************************************************************************)
\* The calls that returned True
SuccessfulLoads == {k \in 1..Len(loads) : loads[k].result}

\* The last of them
LastSuccessfulLoad == CHOOSE k \in SuccessfulLoads : \A j \in SuccessfulLoads : j <= k

\* The line holds a character that is not white space
HasText(line) == \E i \in 1..Len(line) : line[i] \notin WhiteSpace

IsText(c) == c \notin WhiteSpace

\* The number of runs of white space inside the line, between two of its words
InnerRuns(line) ==
    Cardinality({i \in 2..Len(line) :
                   /\ line[i] \notin WhiteSpace
                   /\ line[i - 1] \in WhiteSpace
                   /\ \E j \in 1..(i - 1) : line[j] \notin WhiteSpace})

\* normalized is what the lines of a file become: one element for each line
\* that holds text, in the order of the file, with the characters of the line
\* that are not white space in their order, one space for each run of white
\* space inside the line, and no other white space.
NormalizedOf(normalized, lines) ==
    LET kept == SelectSeq(lines, HasText)
    IN /\ Len(normalized) = Len(kept)
       /\ \A k \in 1..Len(normalized) :
             LET e == normalized[k]
             IN /\ e # <<>>
                /\ e[1] \notin WhiteSpace
                /\ e[Len(e)] \notin WhiteSpace
                /\ \A i \in 1..(Len(e) - 1) :
                      ~(e[i] \in WhiteSpace /\ e[i + 1] \in WhiteSpace)
                /\ \A i \in 1..Len(e) : e[i] \in WhiteSpace => e[i] = " "
                /\ SelectSeq(e, IsText) = SelectSeq(kept[k], IsText)
                /\ Len(e) - Len(SelectSeq(e, IsText)) = InnerRuns(kept[k])
                /\ normalize_line(e) = e

\* C22: after a load_files that returned True, each normalized list holds the
\* lines of its file in their order, each with its ends trimmed and every run
\* of white space inside it collapsed to one space, the lines that normalize
\* to the empty string left out: no element is empty, starts or ends with
\* white space or holds two white-space characters in a row, and
\* normalize_line returns a normalized line unchanged.
C22_NormalizedLists ==
    loads # <<>> /\ loads[Len(loads)].result =>
        /\ NormalizedOf(normalized_merge_lines, loads[Len(loads)].merge_content)
        /\ NormalizedOf(normalized_expected_lines, loads[Len(loads)].expected_content)

\* A load of a file whose second line has white space at both ends and in
\* runs inside it, and of a file two of whose three lines are white space
C22_Witness ==
    /\ loads # <<>>
    /\ loads[Len(loads)].result
    /\ Len(merge_lines) = 2
    /\ Len(normalized_merge_lines) = 2
    /\ merge_lines[2][1] \in WhiteSpace
    /\ InnerRuns(merge_lines[2]) = 2
    /\ normalized_merge_lines[2] = <<"a", " ", "b", " ", "c">>
    /\ Len(expected_lines) = 3
    /\ Len(normalized_expected_lines) = 1

\* C28: after any sequence of load_files calls on one comparator the two
\* normalized lists stem from the same call, the last one that returned True,
\* and are both empty when none did: a call that fails, on the first file or
\* on the second, leaves both lists as they were.
C28_ListsOfOneLoad ==
    comparator # "none" =>
        IF SuccessfulLoads = {}
        THEN normalized_merge_lines = <<>> /\ normalized_expected_lines = <<>>
        ELSE /\ normalized_merge_lines =
                   NormalizedLines(loads[LastSuccessfulLoad].merge_content)
             /\ normalized_expected_lines =
                   NormalizedLines(loads[LastSuccessfulLoad].expected_content)

\* A successful load followed by one that read other merge lines and failed
\* on the expected file
C28_Witness ==
    /\ Len(loads) = 2
    /\ loads[1].result
    /\ loads[2].outcome = "expected_unreadable"
    /\ loads[2].merge_content # loads[1].merge_content
    /\ merge_lines = loads[2].merge_content
    /\ expected_lines = loads[1].expected_content
    /\ normalized_merge_lines = NormalizedLines(loads[1].merge_content)
    /\ normalized_merge_lines # NormalizedLines(merge_lines)

(***************************************************************************)
(* Properties of the name matcher                                          *)
(***************************************************************************)
\* The base names of the matcher's names, in lower case
LowerBase == [n \in MatchNames |-> Lower(extract_base_name(n))] @@ <<>>

\* The candidate has the target's base name, ignoring case
SameBase(target, candidate) == LowerBase[candidate] = LowerBase[target]

\* The similarities of the base names of the matcher's names
Scores ==
    [x \in MatchNames \X MatchNames |->
        calculate_name_similarity(extract_base_name(x[1]), extract_base_name(x[2]))] @@ <<>>

\* The similarity find_best_match scores a candidate with
ScoreOf(target, candidate) == Scores[<<target, candidate>>]

\* The first position of the list with the greatest score
FirstBest(target, candidates) ==
    CHOOSE i \in 1..Len(candidates) :
        /\ \A j \in 1..Len(candidates) :
              LessEq(ScoreOf(target, candidates[j]), ScoreOf(target, candidates[i]))
        /\ \A j \in 1..(i - 1) :
              Less(ScoreOf(target, candidates[j]), ScoreOf(target, candidates[i]))

BestMatchCalled == call.op = "find_best_match"

\* C5: when a candidate has the target's base name, ignoring case,
\* find_best_match returns such a candidate with score 1.0, whatever the other
\* candidates score; find_best_match("Account.java", ["Account.java"], 0.6) is
\* ("Account.java", 1.0).
C5_SameBaseWins ==
    BestMatchCalled =>
        /\ (\E i \in 1..Len(call.candidate_names) :
                SameBase(call.target_name, call.candidate_names[i]))
           => /\ call.result[2] = One
              /\ \E i \in 1..Len(call.candidate_names) :
                    /\ call.candidate_names[i] = call.result[1]
                    /\ SameBase(call.target_name, call.candidate_names[i])
        /\ (/\ call.target_name = Account_java
            /\ call.candidate_names = <<Account_java>>
            /\ call.threshold = DefaultThreshold)
           => call.result = <<Account_java, One>>

\* A call where a candidate that reaches the threshold comes before the
\* candidate of the same base name, which differs from the target in case and
\* suffix
C5_Witness ==
    /\ BestMatchCalled
    /\ Len(call.candidate_names) = 2
    /\ ~SameBase(call.target_name, call.candidate_names[1])
    /\ call.threshold = DefaultThreshold
    /\ LessEq(call.threshold, ScoreOf(call.target_name, call.candidate_names[1]))
    /\ SameBase(call.target_name, call.candidate_names[2])
    /\ call.candidate_names[2] # call.target_name
    /\ call.result = <<call.candidate_names[2], One>>

NoSameBase ==
    \A i \in 1..Len(call.candidate_names) :
        ~SameBase(call.target_name, call.candidate_names[i])

\* C6: with no candidate of the target's base name, the result is
\* the first candidate of the greatest similarity with that similarity when it
\* is at least the threshold, and (None, 0.0) otherwise; a returned match has
\* a score of at least the threshold.
C6_BestOrNone ==
    BestMatchCalled /\ NoSameBase =>
        LET t == call.target_name
            cs == call.candidate_names
        IN /\ IF cs # <<>> /\ LessEq(call.threshold, ScoreOf(t, cs[FirstBest(t, cs)]))
              THEN call.result = <<cs[FirstBest(t, cs)], ScoreOf(t, cs[FirstBest(t, cs)])>>
              ELSE call.result = <<None, Zero>>
           /\ call.result[1] # None => LessEq(call.threshold, call.result[2])

(***************************************************************************)
(* Properties of the name normalizer                                       *)
(***************************************************************************)
\* The removal patterns applied one after the other, each once, in the given
\* order of their positions, from the k-th of the order on
RECURSIVE RemoveInOrder(_, _, _)
RemoveInOrder(base_name, order, k) ==
    IF k > Len(order) THEN base_name
    ELSE RemoveInOrder(ReSub(patterns_to_remove[order[k]], base_name), order, k + 1)

\* Two orders of all the patterns: the order of the list and its reverse
ListOrder == [k \in 1..Len(patterns_to_remove) |-> k]
ReverseOrder == [k \in 1..Len(patterns_to_remove) |-> Len(patterns_to_remove) + 1 - k]

\* C24: the result of extract_base_name does not depend on the order in which
\* the removal patterns are applied, every pattern being applied: applying
\* them all in another order (here the reverse of the list) yields the same
\* string as the order of the code.
C24_OrderIndependent ==
    call.op = "extract_base_name" =>
        /\ call.result = RemoveInOrder(call.filename, ListOrder, 1)
        /\ call.result = RemoveInOrder(call.filename, ReverseOrder, 1)

\* The first half of C24: every pattern is applied, in the order of the list
AllPatternsApplied ==
    call.op = "extract_base_name" =>
        call.result = RemoveInOrder(call.filename, ListOrder, 1)

\* C9: extract_base_name is idempotent: the base name of a base name is that
\* base name.
C9_Idempotent ==
    call.op = "extract_base_name" => extract_base_name(call.result) = call.result

\* text occurs in s
Contains(s, text) ==
    \E i \in 1..(Len(s) - Len(text) + 1) : SubSeq(s, i, i + Len(text) - 1) = text

\* s ends with text followed by one or more characters of the set
EndsWithThen(s, text, chars) ==
    \E i \in 1..(Len(s) - Len(text)) :
        /\ SubSeq(s, i, i + Len(text) - 1) = text
        /\ \A j \in (i + Len(text))..Len(s) : s[j] \in chars

\* The markers of section 4.1, in lower case
EmbeddedMarkers == {
    <<".", "b", "a", "s", "e", ".">>, <<".", "l", "o", "c", "a", "l", ".">>,
    <<".", "r", "e", "m", "o", "t", "e", ".">>, <<".", "b", "a", "c", "k", "u", "p", ".">>,
    <<"_", "b", "a", "s", "e", "_">>, <<"_", "l", "o", "c", "a", "l", "_">>,
    <<"_", "r", "e", "m", "o", "t", "e", "_">>, <<"_", "b", "a", "c", "k", "u", "p", "_">>,
    <<"<", "<", "<", "<", "<", "<", "<", " ">>, <<"=", "=", "=", "=", "=", "=", "=">>,
    <<">", ">", ">", ">", ">", ">", ">", " ">>,
    <<"_", "c", "o", "n", "f", "l", "i", "c", "t", "_">>, <<"_", "m", "e", "r", "g", "e", "d", "_">>,
    <<".", "c", "o", "n", "f", "l", "i", "c", "t", "e", "d", ".">> }

TrailingMarkers == {
    <<".", "o", "r", "i", "g">>, <<".", "r", "e", "j">>, <<".", "m", "i", "n", "e">>,
    <<".", "w", "o", "r", "k", "i", "n", "g">> }

\* The name holds a conflict marker, as section 4.1 lists them
HoldsConflictMarker(name) ==
    LET n == Lower(name)
    IN \/ \E m \in EmbeddedMarkers : Contains(n, m)
       \/ \E m \in TrailingMarkers : EndsWith(n, m)
       \/ EndsWithThen(n, <<".", "r">>, Digits)
       \/ EndsWithThen(n, <<".", "m", "e", "r", "g", "e", "-">>,
                       LowerCase \cup Digits \cup {"_"})

MetricsComputed == metrics # NoMetrics

AllOne ==
    /\ metrics # MetricsError
    /\ metrics.precision = One
    /\ metrics.recall = One
    /\ metrics.f1_score = One
    /\ metrics.similarity_ratio = One
    /\ metrics.line_order_accuracy = One
    /\ metrics.error_rate = Zero
    /\ metrics.extra_lines = 0
    /\ metrics.missing_lines = 0

\* C7 as claimed: for identical normalized lists of any length precision,
\* recall, f1_score, similarity_ratio and line_order_accuracy are 1.0,
\* error_rate is 0.0 and extra_lines and missing_lines are 0.
C7_IdenticalLists ==
    MetricsComputed /\ normalized_merge_lines = normalized_expected_lines => AllOne

\* C7 as it holds: the same for identical lists that are not empty.
C7_IdenticalNonEmptyLists ==
    /\ MetricsComputed
    /\ normalized_merge_lines = normalized_expected_lines
    /\ normalized_merge_lines # <<>>
    => AllOne

\* Metrics of two identical lists that repeat a line
C7_Witness ==
    /\ MetricsComputed
    /\ normalized_merge_lines = normalized_expected_lines
    /\ Len(normalized_merge_lines) = MaxLines
    /\ Cardinality(ToSet(normalized_merge_lines)) < Len(normalized_merge_lines)
    /\ metrics.f1_score = One

\* C8: for lists with no line in common, an empty list or both included,
\* precision, recall and f1_score are 0.0, error_rate is 1.0 and
\* correct_lines is 0, and no division by zero stops the computation.
C8_DisjointLists ==
    /\ MetricsComputed
    /\ ToSet(normalized_merge_lines) \cap ToSet(normalized_expected_lines) = {}
    => /\ metrics # MetricsError
       /\ metrics.precision = Zero
       /\ metrics.recall = Zero
       /\ metrics.f1_score = Zero
       /\ metrics.error_rate = One
       /\ metrics.correct_lines = 0

\* Metrics of an empty merge list and an expected list with lines
C8_Witness ==
    /\ MetricsComputed
    /\ normalized_merge_lines = <<>>
    /\ normalized_expected_lines # <<>>
    /\ metrics # MetricsError
    /\ metrics.recall = Zero

\* C20: correct, extra and missing are counted on the sets of distinct lines:
\* correct_lines + extra_lines = total_merge_lines is the number of distinct
\* merge lines and correct_lines + missing_lines = total_expected_lines that of
\* distinct expected lines; precision is correct/(correct+extra) and recall is
\* correct/(correct+missing), each 0.0 with a denominator of 0; f1_score is
\* 2*precision*recall/(precision+recall), 0.0 when precision+recall is 0;
\* error_rate is 1 - precision; precision, recall and f1_score are within
\* [0, 1].
C20_MetricFormulas ==
    MetricsComputed =>
        /\ metrics # MetricsError
        /\ LET A == ToSet(normalized_merge_lines)
               B == ToSet(normalized_expected_lines)
               correct == Cardinality(A \cap B)
               extra == Cardinality(A \ B)
               missing == Cardinality(B \ A)
               p == metrics.precision
               r == metrics.recall
           IN /\ metrics.correct_lines = correct
              /\ metrics.extra_lines = extra
              /\ metrics.missing_lines = missing
              /\ metrics.correct_lines + metrics.extra_lines = metrics.total_merge_lines
              /\ metrics.total_merge_lines = Cardinality(A)
              /\ metrics.correct_lines + metrics.missing_lines = metrics.total_expected_lines
              /\ metrics.total_expected_lines = Cardinality(B)
              /\ p = IF correct + extra = 0 THEN Zero ELSE Frac(correct, correct + extra)
              /\ r = IF correct + missing = 0 THEN Zero ELSE Frac(correct, correct + missing)
              /\ metrics.f1_score =
                    IF p.num = 0 /\ r.num = 0 THEN Zero
                    ELSE Frac(2 * p.num * r.num, p.num * r.den + r.num * p.den)
              /\ metrics.error_rate = Frac(p.den - p.num, p.den)
              /\ \A x \in {p, r, metrics.f1_score} : LessEq(Zero, x) /\ LessEq(x, One)

\* Metrics of a merge list that repeats a line and has a line more than the
\* expected list
C20_Witness ==
    /\ MetricsComputed
    /\ Len(normalized_merge_lines) > Cardinality(ToSet(normalized_merge_lines))
    /\ metrics.correct_lines = 1
    /\ metrics.extra_lines = 1
    /\ metrics.missing_lines = 0
    /\ Less(Zero, metrics.f1_score)
    /\ Less(metrics.f1_score, One)

\* C21: line_order_accuracy is the number of positions below both lengths at
\* which the two normalized lists hold the same line, divided by the greater
\* of the two lengths, the lists taken in order and with their repetitions,
\* and 0.0 when both lists are empty; it is within [0, 1] and is 1.0 only for
\* two identical lists that are not empty.
C21_LineOrderAccuracy ==
    MetricsComputed =>
        /\ metrics # MetricsError
        /\ LET A == normalized_merge_lines
               B == normalized_expected_lines
               shorter == IF Len(A) <= Len(B) THEN Len(A) ELSE Len(B)
               longer == IF Len(A) <= Len(B) THEN Len(B) ELSE Len(A)
               same == Cardinality({i \in 1..shorter : A[i] = B[i]})
               accuracy == metrics.line_order_accuracy
           IN /\ accuracy = IF longer = 0 THEN Zero ELSE Frac(same, longer)
              /\ LessEq(Zero, accuracy) /\ LessEq(accuracy, One)
              /\ accuracy = One => A = B /\ A # <<>>

\* Metrics of two lists of different lengths that repeat a line and agree at
\* one position only, so that the quotient on the distinct lines is another
C21_Witness ==
    /\ MetricsComputed
    /\ Len(normalized_merge_lines) = 3
    /\ Len(normalized_expected_lines) = 2
    /\ Cardinality(ToSet(normalized_merge_lines)) = 2
    /\ ToSet(normalized_merge_lines) = ToSet(normalized_expected_lines)
    /\ metrics.line_order_accuracy = Frac(1, 3)

====
